---- MODULE Spec2Model ----
(***************************************************************************)
(* Model of the nutrition claim validator: the truth-score aggregation of  *)
(* src/app.py, the phrase normalizer of src/normalizer.py and the query    *)
(* synthesis of src/evidence.py and src/query.py.                          *)
(*                                                                         *)
(* Numbers: a confidence c in the code is the integer 10*c here (tenths),  *)
(* a relevance weight w is 10*w, so a contribution w*c is counted in       *)
(* hundredths.  The arithmetic is exact; the rounding of Python floats is  *)
(* not modelled.  The truth score, a quotient, is kept as the pair         *)
(* [num, den] with den > 0.                                                *)
(***************************************************************************)
EXTENDS Integers, Sequences, FiniteSets, TLC

\* ------------------------------------------------------------------ bounds
\* largest value of the "Maximum number of papers" slider that is explored
MaxPapers == 2
\* largest number of papers left by the similarity pre-filter
MaxFiltered == 3
\* longest claim text given to normalize_claim_phrases, in chunks
MaxClaimLen == 5
\* largest max_phrase_len given to normalize_claim_phrases
MaxPhraseLen == 3
\* longest term given to normalize_term, in chunks
MaxTermLen == 3
\* most words in a context given to normalize_term
MaxContextWords == 2

VARIABLES
    \* --- src/app.py, "Analyze Claim" handler
    pc,                   \* position in the handler
    max_papers,           \* slider value
    n_filtered,           \* len(filtered_papers)
    idx,                  \* number of filtered papers the loop has consumed
    relevant_count,
    analyzed_papers,      \* list of analyses admitted for scoring
    supporting_papers,
    contradicting_papers,
    neutral_papers,
    truth_score,          \* numerator, hundredths
    weight_sum,           \* denominator, hundredths
    score_breakdown,
    final_truth_score,    \* [num, den]
    \* --- src/normalizer.py, module state
    chv_lookup,           \* _CHV_LOOKUP: entries in the dict's iteration order
    \* --- src/normalizer.py, normalize_claim_phrases
    claim,                \* argument: the claim text
    max_phrase_len,       \* argument
    words,                \* claim.lower().split()
    used,                 \* used[j]: token j is covered
    results,              \* the list that is returned
    spans,                \* history: the (start, length) of each result's span
    n,                    \* outer loop variable
    i,                    \* inner loop variable, 1-based
    \* --- src/normalizer.py, normalize_term
    term,                 \* argument
    context,              \* argument: None or a string
    fuzzy_scores,         \* the scores rapidfuzz gives the keys, one list per term asked
    norm_result,          \* [value, step]: what normalize_term returned, and where
    normalization_log,    \* normalization_log.txt, the lines appended
    \* --- src/evidence.py, expand
    expand_terms,         \* the list expand returns
    expand_path,          \* which branch filled the list
    norm2_result,         \* [value, step]: what normalize_term(reduced) returned
    \* --- src/evidence.py, build_pubmed_query_from_claim
    subject,              \* argument
    outcome,              \* argument
    human_only,           \* argument
    publication_types,    \* argument: None or a list
    query,                \* the string the latest call with these arguments returned
    first_query,          \* history: None, or the string the first such call returned
    \* --- src/query.py, build_pubmed_query_from_claim
    extraction,           \* what extract_claim answers for the claim: None or a dict
    claim_query,          \* the string the latest call with the claim returned
    first_claim_query,    \* history: None, or the string the first such call returned
    trace,                \* history: the calls made so far, in order
    extract_memo,         \* the similarity library: the scores it gave each term asked
    cui_mesh,             \* cui_to_mesh: its answer for each CUI
    \* --- src/claim_extractor.py, analyze_paper: the parse of the response
    response,             \* the lines of the oracle's text
    line_no,              \* the line the loop is at
    parsing,              \* the locals of the loop
    parse_result,         \* None, or the dict built after the loop
    \* --- src/claim_extractor.py, the calls and the cache
    cache,                \* the diskcache: a function of the keys stored
    calls                 \* history: each call, what the oracle did, what came back

scoreVars == <<pc, max_papers, n_filtered, idx, relevant_count, analyzed_papers,
               supporting_papers, contradicting_papers, neutral_papers,
               truth_score, weight_sum, score_breakdown, final_truth_score>>

scoreVarsButPc == <<max_papers, n_filtered, idx, relevant_count, analyzed_papers,
                    supporting_papers, contradicting_papers, neutral_papers,
                    truth_score, weight_sum, score_breakdown, final_truth_score>>

phraseVars == <<claim, max_phrase_len, words, used, results, spans, n, i>>

normVars == <<term, context, fuzzy_scores, norm_result, normalization_log>>

expandVars == <<expand_terms, expand_path, norm2_result>>

queryVars == <<subject, outcome, human_only, publication_types, query,
               first_query, extraction, claim_query, first_claim_query, trace,
               extract_memo, cui_mesh>>

analyzeVars == <<response, line_no, parsing, parse_result, cache, calls>>

vars == <<scoreVars, chv_lookup, phraseVars, normVars, expandVars, queryVars,
          analyzeVars>>

\* ---------------------------------------------------------------- strings
\* A string is a sequence of chunks.  A chunk is either the space " " or a
\* run of word characters taken as a unit ("pain", "PAIN", ...); two word
\* chunks side by side form one longer word.  The upper-case chunks are the
\* upper-case spellings of the lower-case ones.
LowerChunk(c) ==
    CASE c = "PAIN" -> "pain"
      [] c = "PERIOD" -> "period"
      [] c = "DRINKING" -> "drinking"
      [] c = "FROM" -> "from"
      [] c = "None" -> "none"
      [] c = "NULL" -> "null"
      [] OTHER -> c

\* str.lower()
Lower(s) == [k \in 1..Len(s) |-> LowerChunk(s[k])]

RECURSIVE LStrip(_)
LStrip(s) == IF s # <<>> /\ Head(s) = " " THEN LStrip(Tail(s)) ELSE s

RECURSIVE RStrip(_)
RStrip(s) ==
    IF s # <<>> /\ s[Len(s)] = " " THEN RStrip(SubSeq(s, 1, Len(s) - 1)) ELSE s

\* str.strip()
Strip(s) == RStrip(LStrip(s))

\* str.split(): the maximal runs of non-space chunks, in order
RECURSIVE SplitFrom(_, _, _)
SplitFrom(s, cur, acc) ==
    IF s = <<>>
    THEN (IF cur = <<>> THEN acc ELSE Append(acc, cur))
    ELSE IF Head(s) = " "
         THEN SplitFrom(Tail(s), <<>>, IF cur = <<>> THEN acc ELSE Append(acc, cur))
         ELSE SplitFrom(Tail(s), Append(cur, Head(s)), acc)

Split(s) == SplitFrom(s, <<>>, <<>>)

\* " ".join(ws)
RECURSIVE JoinSpace(_)
JoinSpace(ws) ==
    IF ws = <<>> THEN <<>>
    ELSE IF Len(ws) = 1 THEN ws[1]
    ELSE ws[1] \o <<" ">> \o JoinSpace(Tail(ws))

\* All strings of at most len chunks over the alphabet
StringsUpTo(alphabet, len) == UNION {[1..k -> alphabet] : k \in 0..len}

\* Optional values: None is the empty sequence, a value x is <<x>>
None == <<>>
Some(x) == <<x>>

\* ----------------------------------------------------------- lookup table
\* _CHV_LOOKUP as loaded from chv_lookup.json: key -> {standard_term, CUI},
\* keys lower-case, trimmed and unique (preprocess_chv.build_lookup).
PhraseTables ==
    { << [key |-> <<"period", " ", "pain">>, standard_term |-> <<"dysmenorrhea">>,
          CUI |-> "C0013390"],
         [key |-> <<"pain", " ", "period">>, standard_term |-> <<"menstrual pain">>,
          CUI |-> "C0013390"],
         [key |-> <<"pain">>, standard_term |-> <<"pain">>, CUI |-> "C0030193"] >>,
      << [key |-> <<"period">>, standard_term |-> <<"menstruation">>,
          CUI |-> "C0025344"],
         [key |-> <<"period", " ", "pain", " ", "period">>,
          standard_term |-> <<"dysmenorrhea">>, CUI |-> "C0013390"] >> }

\* _CHV_LOOKUP.get(phrase): None or the entry
LookupGet(phrase) ==
    LET hits == {k \in 1..Len(chv_lookup) : chv_lookup[k].key = phrase}
    IN  IF hits = {} THEN None ELSE Some(chv_lookup[CHOOSE k \in hits : TRUE])

\* ------------------------------------------------------- analysis results
\* What the per-document oracle can answer (claim_extractor.analyze_paper):
\* the labels of the prompt, plus a label outside the prompt's list.
RelevanceLabels == {"DIRECT", "INDIRECT", "CONTEXTUAL", "NOT RELEVANT", "UNKNOWN"}
ValidityLabels == {"SUPPORTS", "CONTRADICTS", "NEUTRAL", "N/A"}
\* overall_confidence in tenths: float() of the oracle's text, so any number;
\* here -0.5, 0.0, 0.6 and 0.8
Confidences == {0 - 5, 0, 6, 8}

Analyses == [relevance : RelevanceLabels,
             validity : ValidityLabels,
             overall_confidence : Confidences]

\* ------------------------------------------------------------ truth score
\* {"DIRECT": 1.0, "INDIRECT": 0.5, "CONTEXTUAL": 0.2}.get(relevance, 0), in tenths
rel_weight_swapped(relevance) ==
    CASE relevance = "DIRECT" -> 10
      [] relevance = "INDIRECT" -> 2
      [] relevance = "CONTEXTUAL" -> 5
      [] OTHER -> 0

rel_weight(relevance) ==
    CASE relevance = "DIRECT" -> 10
      [] relevance = "INDIRECT" -> 5
      [] relevance = "CONTEXTUAL" -> 2
      [] OTHER -> 0

contribUnsigned(analysis) ==
    LET w == rel_weight(analysis.relevance)
        conf == analysis.overall_confidence
    IN  CASE analysis.validity = "SUPPORTS" -> w * conf
          [] analysis.validity = "CONTRADICTS" -> w * conf
          [] OTHER -> 0

\* contrib of one analysis (app.py 303-307), hundredths
contrib(analysis) ==
    LET w == rel_weight(analysis.relevance)
        conf == analysis.overall_confidence
    IN  CASE analysis.validity = "SUPPORTS" -> w * conf
          [] analysis.validity = "CONTRADICTS" -> (0 - w) * conf
          [] OTHER -> 0

\* One iteration of the truth-score loop on the accumulator
\* acc = [truth_score, weight_sum, score_breakdown].
ScoreStepSupportWeight(acc, analysis) ==
    [truth_score |-> acc.truth_score + contrib(analysis),
     weight_sum |-> acc.weight_sum
                    + (IF analysis.validity = "SUPPORTS"
                       THEN rel_weight(analysis.relevance) * analysis.overall_confidence
                       ELSE 0),
     score_breakdown |-> Append(acc.score_breakdown,
                                [relevance |-> analysis.relevance,
                                 confidence |-> analysis.overall_confidence,
                                 validity |-> analysis.validity,
                                 contribution |-> contrib(analysis)])]

ScoreStepOverwrite(acc, analysis) ==
    [truth_score |-> contrib(analysis),
     weight_sum |-> acc.weight_sum
                    + rel_weight(analysis.relevance) * analysis.overall_confidence,
     score_breakdown |-> Append(acc.score_breakdown,
                                [relevance |-> analysis.relevance,
                                 confidence |-> analysis.overall_confidence,
                                 validity |-> analysis.validity,
                                 contribution |-> contrib(analysis)])]

ScoreStep(acc, analysis) ==
    [truth_score |-> acc.truth_score + contrib(analysis),
     weight_sum |-> acc.weight_sum
                    + rel_weight(analysis.relevance) * analysis.overall_confidence,
     score_breakdown |-> Append(acc.score_breakdown,
                                [relevance |-> analysis.relevance,
                                 confidence |-> analysis.overall_confidence,
                                 validity |-> analysis.validity,
                                 contribution |-> contrib(analysis)])]

\* truth_score = 0; weight_sum = 0; score_breakdown = []
ScoreStart == [truth_score |-> 0, weight_sum |-> 0, score_breakdown |-> <<>>]

\* for paper, analysis in analyzed_papers: ...   (left to right)
RECURSIVE ScoreLoop(_, _)
ScoreLoop(acc, papers) ==
    IF papers = <<>> THEN acc
    ELSE ScoreLoop(ScoreStep(acc, Head(papers)), Tail(papers))

\* truth_score / weight_sum if weight_sum else 0, as a fraction
FinalUnguarded(ts, ws) == [num |-> ts, den |-> ws]

FinalTruthScore(ts, ws) ==
    IF ws # 0
    THEN (IF ws > 0 THEN [num |-> ts, den |-> ws]
                    ELSE [num |-> 0 - ts, den |-> 0 - ws])
    ELSE [num |-> 0, den |-> 1]

\* The validity counts after one admitted analysis (app.py 206-211)
CountStepBySign(counts, analysis) ==
    IF contrib(analysis) > 0 THEN [counts EXCEPT !.supporting = @ + 1]
    ELSE IF contrib(analysis) < 0 THEN [counts EXCEPT !.contradicting = @ + 1]
    ELSE [counts EXCEPT !.neutral = @ + 1]

CountStepDropsNeutral(counts, analysis) ==
    CASE analysis.validity = "SUPPORTS" ->
             [counts EXCEPT !.supporting = @ + 1]
      [] analysis.validity = "CONTRADICTS" ->
             [counts EXCEPT !.contradicting = @ + 1]
      [] OTHER -> counts

CountStep(counts, analysis) ==
    CASE analysis.validity = "SUPPORTS" ->
             [counts EXCEPT !.supporting = @ + 1]
      [] analysis.validity = "CONTRADICTS" ->
             [counts EXCEPT !.contradicting = @ + 1]
      [] OTHER -> [counts EXCEPT !.neutral = @ + 1]

\* State of a process that is not in the "Analyze Claim" handler.
ScoreIdle ==
    /\ max_papers = 1
    /\ n_filtered = 0
    /\ idx = 0
    /\ relevant_count = 0
    /\ analyzed_papers = <<>>
    /\ supporting_papers = 0
    /\ contradicting_papers = 0
    /\ neutral_papers = 0
    /\ truth_score = 0
    /\ weight_sum = 0
    /\ score_breakdown = <<>>
    /\ final_truth_score = [num |-> 0, den |-> 1]

\* State of a process that has not called normalize_term.
NormIdle ==
    /\ term = <<>>
    /\ context = <<>>
    /\ fuzzy_scores = <<>>
    /\ norm_result = [value |-> <<>>, step |-> "not called"]
    /\ normalization_log = <<>>

\* State of a process that has not called expand.
ExpandIdle ==
    /\ expand_terms = <<>>
    /\ expand_path = "not called"
    /\ norm2_result = [value |-> <<>>, step |-> "not called"]

\* State of a process that has not called build_pubmed_query_from_claim.
QueryIdle ==
    /\ subject = <<>>
    /\ outcome = <<>>
    /\ human_only = TRUE
    /\ publication_types = <<>>
    /\ query = <<>>
    /\ first_query = <<>>
    /\ extraction = <<>>
    /\ claim_query = <<>>
    /\ first_claim_query = <<>>
    /\ trace = <<>>
    /\ extract_memo = <<>>
    /\ cui_mesh = <<>>

\* State of a process that has not called analyze_paper.
AnalyzeIdle ==
    /\ response = <<>>
    /\ line_no = 0
    /\ parsing = <<>>
    /\ parse_result = <<>>
    /\ cache = <<>>
    /\ calls = <<>>

\* State of a handler that is not running normalize_claim_phrases.
PhraseIdle ==
    /\ claim = <<>>
    /\ max_phrase_len = 0
    /\ words = <<>>
    /\ used = <<>>
    /\ results = <<>>
    /\ spans = <<>>
    /\ n = 0
    /\ i = 0

\* ------------------------------------------------- the handler's actions
ScoreInit ==
    /\ pc = "loop"
    /\ max_papers \in 1..MaxPapers
    /\ n_filtered \in 0..MaxFiltered
    /\ idx = 0
    /\ relevant_count = 0
    /\ analyzed_papers = <<>>
    /\ supporting_papers = 0
    /\ contradicting_papers = 0
    /\ neutral_papers = 0
    /\ truth_score = 0
    /\ weight_sum = 0
    /\ score_breakdown = <<>>
    /\ final_truth_score = [num |-> 0, den |-> 1]
    /\ chv_lookup = <<>>
    /\ PhraseIdle
    /\ NormIdle
    /\ ExpandIdle
    /\ QueryIdle
    /\ AnalyzeIdle

\* One iteration of "for i, paper in enumerate(filtered_papers, 1)" that
\* gets past the break: the oracle answers `analysis`.
AnalyzeNextPaper ==
    /\ pc = "loop"
    /\ idx < n_filtered
    /\ relevant_count < max_papers
    /\ \E analysis \in Analyses :
          /\ idx' = idx + 1
          /\ IF analysis.relevance = "NOT RELEVANT"
             THEN UNCHANGED <<relevant_count, analyzed_papers, supporting_papers,
                              contradicting_papers, neutral_papers>>
             ELSE LET counts == CountStep([supporting |-> supporting_papers,
                                           contradicting |-> contradicting_papers,
                                           neutral |-> neutral_papers], analysis)
                  IN  /\ relevant_count' = relevant_count + 1
                      /\ analyzed_papers' = Append(analyzed_papers, analysis)
                      /\ supporting_papers' = counts.supporting
                      /\ contradicting_papers' = counts.contradicting
                      /\ neutral_papers' = counts.neutral
    /\ UNCHANGED <<pc, max_papers, n_filtered, truth_score, weight_sum,
                   score_breakdown, final_truth_score, chv_lookup, analyzeVars, phraseVars, normVars, expandVars, queryVars>>

\* The loop ends: the list is exhausted or the break is taken.
AnalysisLoopEnds ==
    /\ pc = "loop"
    /\ (idx = n_filtered \/ relevant_count >= max_papers)
    /\ pc' = "assess"
    /\ UNCHANGED <<max_papers, n_filtered, idx, relevant_count, analyzed_papers,
                   supporting_papers, contradicting_papers, neutral_papers,
                   truth_score, weight_sum, score_breakdown, final_truth_score,
                   chv_lookup, analyzeVars, phraseVars, normVars, expandVars, queryVars>>

\* "Calculate truth score": the whole block, app.py 296-319.
CalculateTruthScore ==
    /\ pc = "assess"
    /\ LET acc == ScoreLoop(ScoreStart, analyzed_papers)
       IN  /\ truth_score' = acc.truth_score
           /\ weight_sum' = acc.weight_sum
           /\ score_breakdown' = acc.score_breakdown
           /\ final_truth_score' = FinalTruthScore(acc.truth_score, acc.weight_sum)
    /\ pc' = "done"
    /\ UNCHANGED <<max_papers, n_filtered, idx, relevant_count, analyzed_papers,
                   supporting_papers, contradicting_papers, neutral_papers,
                   chv_lookup, analyzeVars, phraseVars, normVars, expandVars, queryVars>>

ScoreNext == AnalyzeNextPaper \/ AnalysisLoopEnds \/ CalculateTruthScore

ScoreSpec == ScoreInit /\ [][ScoreNext]_vars

\* ----------------------------------------------- claims on the truth score
\* The claims' own reading of the weights and signs, written from the claim
\* text and not from the code.
ClaimWeight(relevance) ==
    IF relevance = "DIRECT" THEN 10
    ELSE IF relevance = "INDIRECT" THEN 5
    ELSE IF relevance = "CONTEXTUAL" THEN 2
    ELSE 0

ClaimSign(validity) ==
    IF validity = "SUPPORTS" THEN 1
    ELSE IF validity = "CONTRADICTS" THEN 0 - 1
    ELSE 0

RECURSIVE ClaimNumerator(_)
ClaimNumerator(papers) ==
    IF papers = <<>> THEN 0
    ELSE ClaimSign(Head(papers).validity) * ClaimWeight(Head(papers).relevance)
             * Head(papers).overall_confidence
         + ClaimNumerator(Tail(papers))

RECURSIVE ClaimDenominator(_)
ClaimDenominator(papers) ==
    IF papers = <<>> THEN 0
    ELSE ClaimWeight(Head(papers).relevance) * Head(papers).overall_confidence
         + ClaimDenominator(Tail(papers))

ConfidencesInUnitInterval ==
    \A k \in 1..Len(analyzed_papers) :
        analyzed_papers[k].overall_confidence \in 0..10

Permute(s, p) == [k \in 1..Len(s) |-> s[p[k]]]

RECURSIVE CountLoop(_, _)
CountLoop(counts, papers) ==
    IF papers = <<>> THEN counts
    ELSE CountLoop(CountStep(counts, Head(papers)), Tail(papers))

NoCounts == [supporting |-> 0, contradicting |-> 0, neutral |-> 0]

\* C1: for any list of analyzed documents whose confidences lie in [0,1],
\* the empty list and all-zero confidences included, the truth score
\* sum(contribution) / sum(weight * confidence) is defined and lies in [-1, 1].
C1_TruthScoreInUnitRange ==
    (pc = "done" /\ ConfidencesInUnitInterval) =>
        /\ final_truth_score.den > 0
        /\ 0 - final_truth_score.den <= final_truth_score.num
        /\ final_truth_score.num <= final_truth_score.den

\* C1 witness: a scored list of supporting and contradicting documents with
\* in-range confidences whose score is strictly between 0 and 1 in magnitude.
C1_Witness ==
    /\ pc = "done"
    /\ ConfidencesInUnitInterval
    /\ Len(analyzed_papers) >= 2
    /\ \E j, k \in 1..Len(analyzed_papers) :
          /\ analyzed_papers[j].validity = "SUPPORTS"
          /\ analyzed_papers[k].validity = "CONTRADICTS"
    /\ final_truth_score.num < 0
    /\ 0 - final_truth_score.num < final_truth_score.den

C9_ZeroWhenNoWeightedEvidence ==
    pc = "done" =>
        /\ final_truth_score.den # 0
        /\ ClaimDenominator(analyzed_papers) = 0 =>
               (final_truth_score.num = 0 /\ final_truth_score.den = 1)
        /\ analyzed_papers = <<>> =>
               /\ final_truth_score.num = 0
               /\ supporting_papers = 0
               /\ contradicting_papers = 0
               /\ neutral_papers = 0

\* C9 witness: a scored, non-empty list whose denominator is 0 because one
\* document has a zero-weight relevance label and the other confidence 0.
C9_Witness ==
    /\ pc = "done"
    /\ Len(analyzed_papers) = 2
    /\ analyzed_papers[1].relevance = "UNKNOWN"
    /\ analyzed_papers[1].overall_confidence = 8
    /\ analyzed_papers[1].validity = "SUPPORTS"
    /\ analyzed_papers[2].relevance = "DIRECT"
    /\ analyzed_papers[2].overall_confidence = 0
    /\ ClaimDenominator(analyzed_papers) = 0

\* C9 second case: no document was admitted at all.
C9_WitnessEmpty == pc = "done" /\ analyzed_papers = <<>> /\ idx > 0

\* C10: each scored document contributes sign * weight * confidence to the
\* numerator and weight * confidence to the denominator, with weights
\* DIRECT 1.0, INDIRECT 0.5, CONTEXTUAL 0.2, else 0; (DIRECT, SUPPORTS, 0.8)
\* and (INDIRECT, CONTRADICTS, 0.6) contribute +0.8 and -0.3, value 0.5/1.1.
C10_Example ==
    <<[relevance |-> "DIRECT", validity |-> "SUPPORTS", overall_confidence |-> 8],
      [relevance |-> "INDIRECT", validity |-> "CONTRADICTS", overall_confidence |-> 6]>>

C10_PerDocumentContribution ==
    pc = "done" =>
        /\ Len(score_breakdown) = Len(analyzed_papers)
        /\ \A k \in 1..Len(analyzed_papers) :
              score_breakdown[k].contribution
                = ClaimSign(analyzed_papers[k].validity)
                    * ClaimWeight(analyzed_papers[k].relevance)
                    * analyzed_papers[k].overall_confidence
        /\ truth_score = ClaimNumerator(analyzed_papers)
        /\ weight_sum = ClaimDenominator(analyzed_papers)
        /\ weight_sum > 0 =>
               final_truth_score = [num |-> truth_score, den |-> weight_sum]
        /\ analyzed_papers = C10_Example =>
               /\ score_breakdown[1].contribution = 80
               /\ score_breakdown[2].contribution = 0 - 30
               /\ final_truth_score = [num |-> 50, den |-> 110]

\* C10 witness: the two documents of the example have been scored.
C10_Witness == pc = "done" /\ analyzed_papers = C10_Example

\* The papers that carry weight in the claim's reading: weight * confidence > 0.
PositivelyWeighted ==
    {k \in 1..Len(analyzed_papers) :
        ClaimWeight(analyzed_papers[k].relevance)
            * analyzed_papers[k].overall_confidence > 0}

\* C29: for confidences in [0,1] the sign of the truth score is backed by
\* evidence of that sign: a positive value needs a SUPPORTS paper with
\* positive weight * confidence, a negative value a CONTRADICTS one, and when
\* there are positively weighted papers and all of them are SUPPORTS
\* (CONTRADICTS) the value is exactly 1 (-1).
C29_SignBackedByEvidence ==
    (pc = "done" /\ ConfidencesInUnitInterval) =>
        /\ final_truth_score.num > 0 =>
              \E k \in PositivelyWeighted : analyzed_papers[k].validity = "SUPPORTS"
        /\ final_truth_score.num < 0 =>
              \E k \in PositivelyWeighted : analyzed_papers[k].validity = "CONTRADICTS"
        /\ (/\ PositivelyWeighted # {}
            /\ \A k \in PositivelyWeighted : analyzed_papers[k].validity = "SUPPORTS")
              => /\ final_truth_score.den > 0
                 /\ final_truth_score.num = final_truth_score.den
        /\ (/\ PositivelyWeighted # {}
            /\ \A k \in PositivelyWeighted : analyzed_papers[k].validity = "CONTRADICTS")
              => /\ final_truth_score.den > 0
                 /\ final_truth_score.num = 0 - final_truth_score.den

\* C29 witness: the score is exactly -1 on a CONTRADICTS paper with positive
\* weight, next to a SUPPORTS paper that carries no weight.
C29_Witness ==
    /\ pc = "done"
    /\ ConfidencesInUnitInterval
    /\ Len(analyzed_papers) = 2
    /\ PositivelyWeighted # {}
    /\ \A k \in PositivelyWeighted : analyzed_papers[k].validity = "CONTRADICTS"
    /\ \E k \in 1..2 : /\ k \notin PositivelyWeighted
                       /\ analyzed_papers[k].validity = "SUPPORTS"
    /\ final_truth_score.num = 0 - final_truth_score.den

\* ------------------------------------------ claims on admission and counts
\* The relevance labels that carry a weight
WeightedLabels == {"DIRECT", "INDIRECT", "CONTEXTUAL"}

\* The admitted analyses whose relevance carries a weight, in order
RECURSIVE WithWeightedLabel(_)
WithWeightedLabel(papers) ==
    IF papers = <<>> THEN <<>>
    ELSE (IF Head(papers).relevance \in WeightedLabels THEN <<Head(papers)>> ELSE <<>>)
         \o WithWeightedLabel(Tail(papers))

\* The number of analyses of a list whose validity is in a set
RECURSIVE Tally(_, _)
Tally(papers, validities) ==
    IF papers = <<>> THEN 0
    ELSE (IF Head(papers).validity \in validities THEN 1 ELSE 0)
         + Tally(Tail(papers), validities)

\* C11: a document whose relevance is NOT RELEVANT or any other value than
\* DIRECT, INDIRECT, CONTEXTUAL is left out before scoring and before
\* counting: the three counts, the numerator and the denominator are those
\* of the documents with one of the three labels alone.
C11_UnweightedRelevanceExcluded ==
    /\ \A k \in 1..Len(analyzed_papers) :
          analyzed_papers[k].relevance \in WeightedLabels
    /\ supporting_papers = Tally(WithWeightedLabel(analyzed_papers), {"SUPPORTS"})
    /\ contradicting_papers = Tally(WithWeightedLabel(analyzed_papers), {"CONTRADICTS"})
    /\ neutral_papers
         = Tally(WithWeightedLabel(analyzed_papers), ValidityLabels \ {"SUPPORTS", "CONTRADICTS"})
    /\ pc = "done" =>
          /\ truth_score = ClaimNumerator(WithWeightedLabel(analyzed_papers))
          /\ weight_sum = ClaimDenominator(WithWeightedLabel(analyzed_papers))

\* C12: the three counts are tallied from the validity of each admitted
\* document, whatever its weight, confidence and contribution: SUPPORTS
\* counts as supporting, CONTRADICTS as contradicting, every other validity
\* as neutral.
C12_CountsFromValidity ==
    /\ supporting_papers = Tally(analyzed_papers, {"SUPPORTS"})
    /\ contradicting_papers = Tally(analyzed_papers, {"CONTRADICTS"})
    /\ neutral_papers = Tally(analyzed_papers, ValidityLabels \ {"SUPPORTS", "CONTRADICTS"})
    /\ supporting_papers + contradicting_papers + neutral_papers = Len(analyzed_papers)

\* C12 witness: a supporting document whose contribution is negative and a
\* directly relevant document of validity N/A have been counted as
\* supporting and as neutral.
C12_Witness ==
    /\ Len(analyzed_papers) = 2
    /\ \E j, h \in 1..2 :
          /\ analyzed_papers[j].validity = "SUPPORTS"
          /\ contrib(analyzed_papers[j]) < 0
          /\ analyzed_papers[h].validity = "N/A"
          /\ analyzed_papers[h].relevance = "DIRECT"
    /\ supporting_papers = 1
    /\ contradicting_papers = 0
    /\ neutral_papers = 1

\* C28: at every point of the loop over the papers and after it, the three
\* counts add up to the number of papers admitted, that number is
\* relevant_count and is at most max_papers, and no admitted paper has the
\* relevance NOT RELEVANT.
C28_CountsSumToAdmitted ==
    pc \in {"loop", "assess", "done"} =>
        /\ supporting_papers + contradicting_papers + neutral_papers = relevant_count
        /\ relevant_count = Len(analyzed_papers)
        /\ relevant_count <= max_papers
        /\ \A k \in 1..Len(analyzed_papers) :
              analyzed_papers[k].relevance # "NOT RELEVANT"

\* C28 witness: the loop has ended on its break with papers left, after it
\* skipped a paper that was not relevant and admitted max_papers others, one
\* of them neutral.
C28_Witness ==
    /\ pc = "assess"
    /\ relevant_count = max_papers
    /\ idx < n_filtered
    /\ idx > relevant_count
    /\ neutral_papers >= 1

\* ------------------------------------------------ normalize_claim_phrases
\* any(used[a:a+len]) for the 1-based span starting at a
AnyUsedIgnored(u, a, len) == FALSE

AnyUsed(u, a, len) == \E j \in a..(a + len - 1) : u[j]

\* The first phrase length at or below m whose inner range is not empty:
\* range(len(words) - m + 1) is empty when m > len(words).
FirstLengthWholeClaim(m, nwords) == nwords

FirstLength(m, nwords) == IF m > nwords THEN nwords ELSE m

\* The loop position after the iteration (m, a); "singles" when the nested
\* loops are over (m = 0 afterwards).
NextPositionSkipping(m, a, nwords) ==
    IF a + 1 <= nwords - m + 1
    THEN [n |-> m, i |-> a + 1]
    ELSE [n |-> m - 2, i |-> 1]

NextPosition(m, a, nwords) ==
    IF a + 1 <= nwords - m + 1
    THEN [n |-> m, i |-> a + 1]
    ELSE [n |-> m - 1, i |-> 1]

\* The dict that is appended for a hit
PhraseResult(phrase, norm) ==
    [original |-> phrase, standard_term |-> norm.standard_term, CUI |-> norm.CUI]

PhraseInit ==
    /\ chv_lookup \in PhraseTables
    /\ claim \in StringsUpTo({"period", "pain", "PAIN", " "}, MaxClaimLen)
    /\ max_phrase_len \in 0..MaxPhraseLen
    /\ words = Split(Lower(claim))
    /\ used = [j \in 1..Len(Split(Lower(claim))) |-> FALSE]
    /\ results = <<>>
    /\ spans = <<>>
    /\ n = FirstLength(max_phrase_len, Len(Split(Lower(claim))))
    /\ i = 1
    /\ pc = "phrases"
    /\ ScoreIdle
    /\ NormIdle
    /\ ExpandIdle
    /\ QueryIdle
    /\ AnalyzeIdle

\* One iteration of the inner loop "for i in range(len(words) - n + 1)".
ScanSpan ==
    /\ pc = "phrases"
    /\ n >= 1
    /\ LET phrase == JoinSpace(SubSeq(words, i, i + n - 1))
           norm == LookupGet(phrase)
           next == NextPosition(n, i, Len(words))
       IN  /\ IF ~AnyUsed(used, i, n) /\ norm # None
              THEN /\ results' = Append(results, PhraseResult(phrase, norm[1]))
                   /\ spans' = Append(spans, [start |-> i, len |-> n])
                   /\ used' = [j \in 1..Len(used) |->
                                 IF j \in i..(i + n - 1) THEN TRUE ELSE used[j]]
              ELSE UNCHANGED <<results, spans, used>>
           /\ n' = next.n
           /\ i' = next.i
    /\ UNCHANGED <<claim, max_phrase_len, words, chv_lookup, analyzeVars, scoreVars, normVars, expandVars, queryVars>>

\* The nested loops are over: go on to the loop over the single words.
StartSingles ==
    /\ pc = "phrases"
    /\ n < 1
    /\ pc' = "singles"
    /\ i' = 1
    /\ UNCHANGED <<claim, max_phrase_len, words, used, results, spans, n,
                   chv_lookup, analyzeVars, max_papers, n_filtered, idx, relevant_count,
                   analyzed_papers, supporting_papers, contradicting_papers,
                   neutral_papers, truth_score, weight_sum, score_breakdown,
                   final_truth_score, normVars, expandVars, queryVars>>

\* One iteration of "for i, word in enumerate(words)".
ScanSingle ==
    /\ pc = "singles"
    /\ i <= Len(words)
    /\ LET norm == LookupGet(words[i])
       IN  IF ~used[i] /\ norm # None
           THEN /\ results' = Append(results, PhraseResult(words[i], norm[1]))
                /\ spans' = Append(spans, [start |-> i, len |-> 1])
                /\ used' = [used EXCEPT ![i] = TRUE]
           ELSE UNCHANGED <<results, spans, used>>
    /\ i' = i + 1
    /\ UNCHANGED <<claim, max_phrase_len, words, n, chv_lookup, analyzeVars, scoreVars, normVars, expandVars, queryVars>>

\* return results
PhrasesReturn ==
    /\ pc = "singles"
    /\ i > Len(words)
    /\ pc' = "returned"
    /\ UNCHANGED <<phraseVars, chv_lookup, analyzeVars, max_papers, n_filtered, idx,
                   relevant_count, analyzed_papers, supporting_papers,
                   contradicting_papers, neutral_papers, truth_score, weight_sum,
                   score_breakdown, final_truth_score, normVars, expandVars, queryVars>>

PhraseNext == ScanSpan \/ StartSingles \/ ScanSingle \/ PhrasesReturn

PhraseSpec == PhraseInit /\ [][PhraseNext]_vars

\* ------------------------------------- claims on normalize_claim_phrases
SpanTokens(a) == spans[a].start..(spans[a].start + spans[a].len - 1)

\* The spans of the claim that are keys of the lookup table
MatchingSpans ==
    {sp \in [start : 1..Len(words), len : 1..Len(words)] :
        /\ sp.start + sp.len - 1 <= Len(words)
        /\ LookupGet(JoinSpace(SubSeq(words, sp.start, sp.start + sp.len - 1))) # None}

\* C3: normalize_claim_phrases never lets two results' token spans overlap:
\* every token index of the whitespace-tokenized claim is claimed by at most
\* one result, for every claim text and every max_phrase_len.
C3_SpansNeverOverlap ==
    pc \in {"phrases", "singles", "returned"} =>
        /\ Len(spans) = Len(results)
        /\ \A a \in 1..Len(spans) :
              /\ SpanTokens(a) \subseteq 1..Len(words)
              /\ results[a].original
                   = JoinSpace(SubSeq(words, spans[a].start,
                                      spans[a].start + spans[a].len - 1))
        /\ \A j \in 1..Len(words) :
              Cardinality({a \in 1..Len(spans) : j \in SpanTokens(a)}) <= 1

\* C3 witness: the call has returned a result although another span, no
\* longer than max_phrase_len and itself a lookup key, shares a token with it
\* and was therefore left out.
C3_Witness ==
    /\ pc = "returned"
    /\ Len(results) >= 1
    /\ \E sp \in MatchingSpans :
          /\ sp.len <= max_phrase_len
          /\ \A a \in 1..Len(spans) : spans[a] # sp
          /\ \E a \in 1..Len(spans) :
                /\ spans[a].len = sp.len
                /\ SpanTokens(a) \cap (sp.start..(sp.start + sp.len - 1)) # {}

\* C8 as stated: for every claim text and every value of max_phrase_len,
\* each returned result covers a span of at most max_phrase_len tokens.
C8_SpanAtMostMaxPhraseLen ==
    pc \in {"phrases", "singles", "returned"} =>
        \A a \in 1..Len(spans) : spans[a].len <= max_phrase_len

\* C8 as amended: each result covers at most max(max_phrase_len, 1) tokens:
\* the phrase scan records spans of at most max_phrase_len tokens, and the
\* pass over the uncovered single tokens records one-token results whatever
\* max_phrase_len is.
C8_SpanAtMostMaxPhraseLenOrOne ==
    pc \in {"phrases", "singles", "returned"} =>
        \A a \in 1..Len(spans) :
            /\ spans[a].len >= 1
            /\ spans[a].len <= (IF max_phrase_len >= 1 THEN max_phrase_len ELSE 1)

\* C8 witness: a call with max_phrase_len >= 2 and at least three tokens has
\* returned a result that spans exactly max_phrase_len tokens.
C8_Witness ==
    /\ pc = "returned"
    /\ max_phrase_len >= 2
    /\ Len(words) > max_phrase_len
    /\ \E a \in 1..Len(spans) : spans[a].len = max_phrase_len

\* C8, the refuting case: max_phrase_len = 0 and a one-token result.
C8_WitnessZero ==
    /\ pc = "returned"
    /\ max_phrase_len = 0
    /\ Len(results) >= 1

\* The tokens of a span
TokensOf(sp) == sp.start..(sp.start + sp.len - 1)

\* The span sp is the span of a result
IsResultSpan(sp) == \E a \in 1..Len(spans) : spans[a] = sp

\* C19: when normalize_claim_phrases has returned, every span of at most
\* max_phrase_len tokens that is a lookup key and is not the span of a
\* result shares a token with a result at least as long; the results stand
\* in the order in which no result is longer than one before it; and no
\* token left uncovered is a lookup key.
C19_LongerPhrasesFirst ==
    pc = "returned" =>
        /\ \A sp \in MatchingSpans :
              (sp.len <= max_phrase_len /\ ~IsResultSpan(sp))
                 => \E a \in 1..Len(spans) :
                       /\ spans[a].len >= sp.len
                       /\ SpanTokens(a) \cap TokensOf(sp) # {}
        /\ \A a, b \in 1..Len(spans) : a < b => spans[a].len >= spans[b].len
        /\ \A j \in 1..Len(words) :
              (\A a \in 1..Len(spans) : j \notin SpanTokens(a))
                 => LookupGet(words[j]) = None

\* C19 witness: the call has returned a result of two tokens or more, and a
\* shorter span inside it, itself a lookup key, is not among the results.
C19_Witness ==
    /\ pc = "returned"
    /\ \E sp \in MatchingSpans :
          /\ sp.len <= max_phrase_len
          /\ ~IsResultSpan(sp)
          /\ \E a \in 1..Len(spans) :
                /\ spans[a].len > sp.len
                /\ TokensOf(sp) \subseteq SpanTokens(a)

\* ---------------------------------------------------------- normalize_term
\* FUZZ_THRESHOLD, on rapidfuzz's scale of 0..100
FUZZ_THRESHOLD == 95

\* The scores the similarity library may give a (term, key) pair.  The
\* library is not part of the repository: each call's scores are any of these.
ScoreValues == {94, 95, 100}

\* _STANDALONE_TERMS.get(t): "drinking" -> "alcohol consumption"
StandaloneGet(t) ==
    IF t = <<"drinking">> THEN Some(<<"alcohol consumption">>) ELSE None

\* re.findall(r'\b\w+\b', s): the maximal runs of word characters.  Every
\* chunk other than the space is a run of word characters.
FindAllWords(s) == Split(s)

\* Membership of a string in a list of strings
InListFirst(x, list) == list # <<>> /\ list[1] = x

InList(x, list) == \E k \in 1..Len(list) : list[k] = x

NormTables ==
    { << [key |-> <<"pain">>, standard_term |-> <<"pain">>, CUI |-> "C0030193"],
         [key |-> <<"drinking", " ", "pain">>, standard_term |-> <<"hangover">>,
          CUI |-> "C0221932"] >>,
      << [key |-> <<"drinking">>, standard_term |-> <<"drinking behavior">>,
          CUI |-> "C0684271"],
         [key |-> <<"pain">>, standard_term |-> <<"pain">>, CUI |-> "C0030193"] >> }

\* process.extractOne(term, keys, score_cutoff=cutoff) given the scores sc of
\* the keys in iteration order: the index of the best key, the first of them
\* on a tie, or 0 when no score reaches the cutoff.
ExtractOneAnyScore(sc, cutoff) ==
    IF Len(sc) = 0 THEN 0
    ELSE CHOOSE k \in 1..Len(sc) :
             /\ \A j \in 1..Len(sc) : sc[j] <= sc[k]
             /\ \A j \in 1..(k - 1) : sc[j] < sc[k]

ExtractOne(sc, cutoff) ==
    LET ok == {k \in 1..Len(sc) : sc[k] >= cutoff}
    IN  IF ok = {} THEN 0
        ELSE CHOOSE k \in ok :
                 /\ \A j \in ok : sc[j] <= sc[k]
                 /\ \A j \in ok : j < k => sc[j] < sc[k]

\* fuzzy_normalize(t) when the library scores the keys sc
FuzzyNormalize(t, sc) ==
    LET best == ExtractOne(sc, FUZZ_THRESHOLD)
    IN  IF best # 0 /\ chv_lookup[best].key # <<>>
        THEN Some([standard_term |-> chv_lookup[best].standard_term,
                   CUI |-> chv_lookup[best].CUI])
        ELSE None

\* One line of normalization_log.txt
LogLine(t, ctx, tag, standard_term) ==
    [term |-> t, context |-> ctx, tag |-> tag, standard_term |-> standard_term]

\* normalize_term(raw, ctx), the library scoring the keys sc if it is asked:
\* the value returned, the return statement taken (step), the lines appended
\* to the log, and whether the library was asked.
NormalizeTermFuzzyFirst(raw, ctx, sc) ==
    LET t == Lower(Strip(raw))
        fuzzy == FuzzyNormalize(t, sc)
        exact == LookupGet(t)
    IN  IF fuzzy # None
        THEN [value |-> fuzzy, step |-> "fuzzy", asked |-> TRUE,
              log |-> <<LogLine(t, ctx, "FUZZY_NORMALIZED", fuzzy[1].standard_term)>>]
        ELSE IF exact # None
        THEN [value |-> Some([standard_term |-> exact[1].standard_term,
                              CUI |-> exact[1].CUI]),
              step |-> "exact", asked |-> TRUE,
              log |-> <<LogLine(t, ctx, "NORMALIZED", exact[1].standard_term)>>]
        ELSE [value |-> None, step |-> "none", asked |-> TRUE, log |-> <<>>]

NormalizeTermLogCached(raw, ctx, sc) ==
    LET cached == {k \in 1..Len(normalization_log) :
                      normalization_log[k].term = Lower(Strip(raw))}
    IN  IF cached # {}
        THEN LET k == CHOOSE j \in cached : \A h \in cached : j <= h
             IN  [value |-> Some([standard_term |-> normalization_log[k].standard_term,
                                  CUI |-> ""]),
                  step |-> "exact", asked |-> FALSE, log |-> <<>>]
        ELSE
            LET t == Lower(Strip(raw))
                standalone == StandaloneGet(t)
                ctxwords == IF ctx # None THEN FindAllWords(Lower(ctx[1])) ELSE <<>>
                exact == LookupGet(t)
                fuzzy == FuzzyNormalize(t, sc)
            IN  IF standalone # None
                THEN IF ctx # None /\ ctx[1] # <<>> /\ InList(t, ctxwords) /\ Len(ctxwords) > 1
                     THEN [value |-> None, step |-> "suppressed", asked |-> FALSE,
                           log |-> <<>>]
                     ELSE [value |-> Some([standard_term |-> standalone[1],
                                           CUI |-> IF exact # None THEN exact[1].CUI ELSE ""]),
                           step |-> "standalone", asked |-> FALSE,
                           log |-> <<LogLine(t, ctx, "NORMALIZED", standalone[1])>>]
                ELSE IF exact # None
                THEN [value |-> Some([standard_term |-> exact[1].standard_term,
                                      CUI |-> exact[1].CUI]),
                      step |-> "exact", asked |-> FALSE,
                      log |-> <<LogLine(t, ctx, "NORMALIZED", exact[1].standard_term)>>]
                ELSE IF fuzzy # None
                THEN [value |-> fuzzy, step |-> "fuzzy", asked |-> TRUE,
                      log |-> <<LogLine(t, ctx, "FUZZY_NORMALIZED", fuzzy[1].standard_term)>>]
                ELSE [value |-> None, step |-> "none", asked |-> TRUE, log |-> <<>>]

NormalizeTerm(raw, ctx, sc) ==
    LET t == Lower(Strip(raw))
        standalone == StandaloneGet(t)
        ctxwords == IF ctx # None THEN FindAllWords(Lower(ctx[1])) ELSE <<>>
        exact == LookupGet(t)
        fuzzy == FuzzyNormalize(t, sc)
    IN  IF standalone # None
        THEN IF ctx # None /\ ctx[1] # <<>> /\ InList(t, ctxwords) /\ Len(ctxwords) > 1
             THEN [value |-> None, step |-> "suppressed", asked |-> FALSE,
                   log |-> <<>>]
             ELSE [value |-> Some([standard_term |-> standalone[1],
                                   CUI |-> IF exact # None THEN exact[1].CUI ELSE ""]),
                   step |-> "standalone", asked |-> FALSE,
                   log |-> <<LogLine(t, ctx, "NORMALIZED", standalone[1])>>]
        ELSE IF exact # None
        THEN [value |-> Some([standard_term |-> exact[1].standard_term,
                              CUI |-> exact[1].CUI]),
              step |-> "exact", asked |-> FALSE,
              log |-> <<LogLine(t, ctx, "NORMALIZED", exact[1].standard_term)>>]
        ELSE IF fuzzy # None
        THEN [value |-> fuzzy, step |-> "fuzzy", asked |-> TRUE,
              log |-> <<LogLine(t, ctx, "FUZZY_NORMALIZED", fuzzy[1].standard_term)>>]
        ELSE [value |-> None, step |-> "none", asked |-> TRUE, log |-> <<>>]

\* The score lists the library may answer with for the current table
ScoreLists == [1..Len(chv_lookup) -> ScoreValues]

\* The contexts: None, a blank string, and up to MaxContextWords words
\* joined by single spaces
Contexts ==
    {None, Some(<<" ">>)}
    \cup {Some(JoinSpace(ws)) :
             ws \in UNION {[1..k -> {<<"drinking">>, <<"pain">>}] :
                              k \in 0..MaxContextWords}}

NormInit ==
    /\ chv_lookup \in NormTables
    /\ term \in StringsUpTo({"drinking", "pain", "PAIN", " "}, MaxTermLen)
    /\ context \in Contexts
    /\ \E sc \in ScoreLists : fuzzy_scores = <<sc>>
    /\ norm_result = [value |-> <<>>, step |-> "not called"]
    /\ normalization_log = <<>>
    /\ pc = "call"
    /\ ScoreIdle
    /\ PhraseIdle
    /\ ExpandIdle
    /\ QueryIdle
    /\ AnalyzeIdle

\* A call normalize_term(term, context), from entry to return.
CallNormalizeTerm ==
    /\ pc = "call"
    /\ LET r == NormalizeTerm(term, context, fuzzy_scores[1])
       IN  /\ norm_result' = [value |-> r.value, step |-> r.step]
           /\ normalization_log' = normalization_log \o r.log
    /\ pc' = "returned"
    /\ UNCHANGED <<term, context, fuzzy_scores, chv_lookup, analyzeVars, phraseVars, max_papers,
                   n_filtered, idx, relevant_count, analyzed_papers,
                   supporting_papers, contradicting_papers, neutral_papers,
                   truth_score, weight_sum, score_breakdown, final_truth_score, expandVars, queryVars>>

NormNext == CallNormalizeTerm

NormSpec == NormInit /\ [][NormNext]_vars

\* ------------------------------------------------ claims on normalize_term
\* The term as the lookups see it, and the table entry of a key
TrimmedLower == Lower(Strip(term))

EntryOf(key) ==
    LET k == CHOOSE j \in 1..Len(chv_lookup) : chv_lookup[j].key = key
    IN  [standard_term |-> chv_lookup[k].standard_term, CUI |-> chv_lookup[k].CUI]

IsLookupKey(t) == \E j \in 1..Len(chv_lookup) : chv_lookup[j].key = t

IsStandaloneTerm(t) == t = <<"drinking">>

BestScore ==
    CHOOSE b \in {fuzzy_scores[1][j] : j \in 1..Len(chv_lookup)} :
        \A j \in 1..Len(chv_lookup) : fuzzy_scores[1][j] <= b

\* C5 as stated: for every phrase that is a key of the lookup table,
\* normalize(phrase), with or without a context and whatever the surrounding
\* whitespace and letter case, returns that key's table entry as an exact match.
C5_EveryKeyExact ==
    (pc = "returned" /\ IsLookupKey(TrimmedLower)) =>
        /\ norm_result.step = "exact"
        /\ norm_result.value = Some(EntryOf(TrimmedLower))

\* C5 as amended: the same for every key that is not a curated standalone
\* term, the exact lookup on the trimmed, lower-cased term coming before any
\* fuzzy matching; for a key that is a standalone term the standalone check
\* decides first: no match inside a longer context, else the curated standard
\* term with the key's CUI.
C5_EveryNonStandaloneKeyExact ==
    (pc = "returned" /\ IsLookupKey(TrimmedLower)) =>
        IF ~IsStandaloneTerm(TrimmedLower)
        THEN /\ norm_result.step = "exact"
             /\ norm_result.value = Some(EntryOf(TrimmedLower))
        ELSE \/ norm_result.step = "suppressed" /\ norm_result.value = None
             \/ /\ norm_result.step = "standalone"
                /\ norm_result.value
                     = Some([standard_term |-> <<"alcohol consumption">>,
                             CUI |-> EntryOf(TrimmedLower).CUI])

\* C5 witness: a key written with surrounding whitespace and upper case,
\* given with a context of several words, has come back from the exact
\* lookup although the library scores another key 100.
C5_Witness ==
    /\ pc = "returned"
    /\ term # TrimmedLower
    /\ Strip(term) # TrimmedLower
    /\ Len(term) > Len(Strip(term))
    /\ context # None
    /\ Len(Split(context[1])) > 1
    /\ norm_result.step = "exact"
    /\ \E j \in 1..Len(chv_lookup) :
          chv_lookup[j].key # TrimmedLower /\ fuzzy_scores[1][j] = 100

\* C6 as stated: for every term that is not a lookup key and whose best
\* similarity score over the keys is below the threshold of 95, normalize
\* returns the unmatched outcome.
C6_BelowThresholdUnmatched ==
    (pc = "returned" /\ ~IsLookupKey(TrimmedLower) /\ BestScore < 95) =>
        norm_result.value = None

\* C6 as amended: the same for every term that is not a curated standalone
\* term; and a fuzzy match is returned only when the best score is at least
\* 95, and is then the entry of a key with that best score.
C6_BelowThresholdUnmatchedUnlessStandalone ==
    pc = "returned" =>
        /\ (~IsLookupKey(TrimmedLower) /\ ~IsStandaloneTerm(TrimmedLower)
              /\ BestScore < 95) =>
               (norm_result.value = None /\ norm_result.step = "none")
        /\ norm_result.step = "fuzzy" =>
               /\ ~IsLookupKey(TrimmedLower)
               /\ BestScore >= 95
               /\ \E j \in 1..Len(chv_lookup) :
                     /\ fuzzy_scores[1][j] = BestScore
                     /\ norm_result.value
                          = Some([standard_term |-> chv_lookup[j].standard_term,
                                  CUI |-> chv_lookup[j].CUI])

\* C6 witness: a non-empty term that is no key and no standalone term, whose
\* best score is 94, has come back unmatched.
C6_Witness ==
    /\ pc = "returned"
    /\ TrimmedLower # <<>>
    /\ ~IsLookupKey(TrimmedLower)
    /\ ~IsStandaloneTerm(TrimmedLower)
    /\ BestScore = 94
    /\ norm_result.value = None

\* C6, the accepting side: a fuzzy match returned at a best score of exactly 95.
C6_WitnessAccepted ==
    /\ pc = "returned"
    /\ norm_result.step = "fuzzy"
    /\ BestScore = 95

\* The order of the chunks the keys are made of, the space before the letters
ChunkRank(c) ==
    CASE c = " " -> 0
      [] c = "drinking" -> 1
      [] c = "pain" -> 2
      [] c = "period" -> 3
      [] OTHER -> 4

\* s stands before t in lexicographic order
RECURSIVE LexLess(_, _)
LexLess(s, t) ==
    IF t = <<>> THEN FALSE
    ELSE IF s = <<>> THEN TRUE
    ELSE IF ChunkRank(Head(s)) # ChunkRank(Head(t))
    THEN ChunkRank(Head(s)) < ChunkRank(Head(t))
    ELSE LexLess(Tail(s), Tail(t))

\* The keys the library scores highest
BestKeys == {j \in 1..Len(chv_lookup) : fuzzy_scores[1][j] = BestScore}

\* C21: when the fuzzy fallback returns a match it is the entry of the key
\* with the highest score, and of the lexicographically smallest of the keys
\* that share the highest score, wherever the keys stand in the table.
C21_TieBreakSmallestKey ==
    (pc = "returned" /\ norm_result.step = "fuzzy") =>
        \E j \in BestKeys :
            /\ \A h \in BestKeys : h # j => LexLess(chv_lookup[j].key, chv_lookup[h].key)
            /\ norm_result.value = Some([standard_term |-> chv_lookup[j].standard_term,
                                         CUI |-> chv_lookup[j].CUI])

\* C22: for a term of the curated standalone set, normalize_term returns
\* no match exactly when a context is given, the term is one of its words and
\* the context has more than one word; in every other case (no context, or
\* the term alone as context) it returns the curated standard term, also
\* when the term is a key of the lookup table with another standard term.
C22_StandaloneSuppressedInCompound ==
    (pc = "returned" /\ IsStandaloneTerm(TrimmedLower)) =>
        LET ctxwords == IF context = None THEN <<>> ELSE Split(Lower(context[1]))
            compound == /\ context # None
                        /\ \E k \in 1..Len(ctxwords) : ctxwords[k] = TrimmedLower
                        /\ Len(ctxwords) > 1
        IN  IF compound THEN norm_result.value = None
            ELSE /\ norm_result.value # None
                 /\ norm_result.value[1].standard_term = <<"alcohol consumption">>

\* C22 witness: the standalone term, a key of the table, came back without
\* a match in a context where it is the second of two words, the library
\* scoring a key 100.
C22_Witness ==
    /\ pc = "returned"
    /\ IsStandaloneTerm(TrimmedLower)
    /\ IsLookupKey(TrimmedLower)
    /\ context = Some(<<"pain", " ", "drinking">>)
    /\ norm_result.value = None
    /\ BestScore = 100

\* C22, the other side: the standalone term alone as its context came back
\* with the curated standard term and not with the table's.
C22_WitnessAlone ==
    /\ pc = "returned"
    /\ IsStandaloneTerm(TrimmedLower)
    /\ context = Some(<<"drinking">>)
    /\ IsLookupKey(TrimmedLower)
    /\ EntryOf(TrimmedLower).standard_term = <<"drinking behavior">>
    /\ norm_result.value = Some([standard_term |-> <<"alcohol consumption">>,
                                 CUI |-> "C0684271"])

\* C27: a call of normalize_term changes nothing outside the value it
\* returns: the lookup table is as it was, and nothing is written, the log
\* file being as it was.
C27_NormalizeHasNoSideEffect ==
    [][chv_lookup' = chv_lookup /\ normalization_log' = normalization_log]_vars

\* ------------------------------------------------- evidence.py, expand
\* most words in a term given to expand
MaxExpandWords == 3

\* sub in s: sub occurs in s as a contiguous run
OccursAt(s, sub, p) ==
    /\ p + Len(sub) - 1 <= Len(s)
    /\ \A k \in 1..Len(sub) : s[p + k - 1] = sub[k]

Contains(s, sub) == \E p \in 1..(Len(s) + 1) : OccursAt(s, sub, p)

\* s.split(sep)[-1]: what follows the last of the occurrences of sep that a
\* scan from the left finds, each found occurrence being skipped whole
RECURSIVE SplitLast(_, _)
SplitLast(s, sep) ==
    IF ~Contains(s, sep) THEN s
    ELSE LET p == CHOOSE q \in 1..Len(s) :
                      /\ OccursAt(s, sep, q)
                      /\ \A r \in 1..(q - 1) : ~OccursAt(s, sep, r)
         IN  SplitLast(SubSeq(s, p + Len(sep), Len(s)), sep)

\* The keywords of the menstrual-pain cluster, and the separators, in the
\* order of the lists in the code
ClusterKeywords ==
    << <<"period", " ", "cramping">>, <<"period", " ", "pain">>,
       <<"menstrual", " ", "pain">>, <<"menstrual", " ", "cramps">> >>

SeparatorsWithoutFrom ==
    << <<" ", "of", " ">>, <<" ", "in", " ">>, <<" ", "due", " ", "to", " ">> >>

Separators ==
    << <<" ", "from", " ">>, <<" ", "of", " ">>, <<" ", "in", " ">>,
       <<" ", "due", " ", "to", " ">> >>

\* list(dict.fromkeys(terms)): the first occurrence of each, in order
RECURSIVE Dedupe(_)
Dedupe(terms) ==
    IF terms = <<>> THEN <<>>
    ELSE LET front == Dedupe(SubSeq(terms, 1, Len(terms) - 1))
             last == terms[Len(terms)]
         IN  IF InList(last, front) THEN front ELSE Append(front, last)

\* What cui_to_mesh may answer: nothing, or a heading
MeshAnswers == {None, Some(<<"pain">>), Some(<<"dysmenorrhea">>)}

\* expand(t, ctx), the library scoring the keys sc1 for t and sc2 for the
\* reduced phrase, and cui_to_mesh answering mesh: the list returned, the
\* branch that filled it, both normalize_term results and the log lines.
ExpandNoFallback(t, ctx, sc1, sc2, mesh) ==
    LET norm == NormalizeTerm(t, Some(ctx), sc1)
    IN  [terms |-> IF norm.value # None THEN <<norm.value[1].standard_term>>
                   ELSE <<>>,
         path |-> IF norm.value # None THEN "normalized" ELSE "verbatim",
         norm |-> norm,
         norm2 |-> [value |-> <<>>, step |-> "not called"],
         log |-> norm.log]

Expand(t, ctx, sc1, sc2, mesh) ==
    LET norm == NormalizeTerm(t, Some(ctx), sc1)
        notcalled == [value |-> <<>>, step |-> "not called"]
        lower_term == Lower(t)
        seps == {k \in 1..Len(Separators) : Contains(t, Separators[k])}
    IN  IF norm.value # None
        THEN LET std == <<norm.value[1].standard_term>>
                 terms == IF norm.value[1].CUI # "" /\ mesh # None /\ mesh[1] # <<>>
                          THEN Append(std, mesh[1]) ELSE std
             IN  [terms |-> Dedupe(terms), path |-> "normalized", norm |-> norm,
                  norm2 |-> notcalled, log |-> norm.log]
        ELSE IF \E k \in 1..Len(ClusterKeywords) :
                    Contains(lower_term, ClusterKeywords[k])
        THEN [terms |-> << <<"dysmenorrhea">> >>, path |-> "cluster",
              norm |-> norm, norm2 |-> notcalled, log |-> norm.log]
        ELSE IF seps # {}
        THEN LET sep == Separators[CHOOSE k \in seps : \A j \in seps : k <= j]
                 reduced == Strip(SplitLast(t, sep))
                 norm2 == NormalizeTerm(reduced, Some(ctx), sc2)
             IN  [terms |-> IF norm2.value # None
                            THEN <<norm2.value[1].standard_term>>
                            ELSE <<reduced>>,
                  path |-> "reduced", norm |-> norm,
                  norm2 |-> [value |-> norm2.value, step |-> norm2.step],
                  log |-> norm.log \o norm2.log]
        ELSE [terms |-> <<t>>, path |-> "verbatim", norm |-> norm,
              norm2 |-> notcalled, log |-> norm.log]

\* The terms given to expand: up to MaxExpandWords words, single-spaced
ExpandWordLists ==
    UNION {[1..k -> {<<"period">>, <<"pain">>, <<"PAIN">>, <<"from">>,
                     <<"drinking">>}] : k \in 0..MaxExpandWords}

\* The library's answers to expand: no key reaches 100, or exactly one does
ExpandScoreLists ==
    {sc \in [1..Len(chv_lookup) -> {94, 100}] :
        \A j, k \in 1..Len(chv_lookup) : (sc[j] = 100 /\ sc[k] = 100) => j = k}

\* expand is called with context = subject + " " + outcome, the term being
\* the subject or the outcome
ExpandInit ==
    /\ chv_lookup \in NormTables
    /\ \E ws \in ExpandWordLists : term = JoinSpace(ws)
    /\ \E other \in {<<>>, <<"pain">>} :
          \/ context = Some(term \o <<" ">> \o other)
          \/ context = Some(other \o <<" ">> \o term)
    /\ fuzzy_scores = <<>>
    /\ norm_result = [value |-> <<>>, step |-> "not called"]
    /\ normalization_log = <<>>
    /\ ExpandIdle
    /\ QueryIdle
    /\ pc = "expand"
    /\ ScoreIdle
    /\ PhraseIdle
    /\ AnalyzeIdle

\* A call expand(term, context), from entry to return.
CallExpand ==
    /\ pc = "expand"
    /\ \E sc1 \in ExpandScoreLists, sc2 \in ExpandScoreLists, mesh \in MeshAnswers :
          LET r == Expand(term, context[1], sc1, sc2, mesh)
          IN  /\ expand_terms' = r.terms
              /\ expand_path' = r.path
              /\ norm_result' = [value |-> r.norm.value, step |-> r.norm.step]
              /\ norm2_result' = r.norm2
              /\ normalization_log' = normalization_log \o r.log
    /\ pc' = "expanded"
    /\ UNCHANGED <<term, context, fuzzy_scores, chv_lookup, analyzeVars, scoreVarsButPc, phraseVars, queryVars>>

ExpandNext == CallExpand

ExpandSpec == ExpandInit /\ [][ExpandNext]_vars

\* ------------------------------------------------------- claims on expand
NothingMatched == norm_result.step \in {"none", "suppressed"}

HasClusterKeyword ==
    \E k \in 1..Len(ClusterKeywords) : Contains(Lower(term), ClusterKeywords[k])

HasSeparator == \E k \in 1..Len(Separators) : Contains(term, Separators[k])

C7_WitnessReduced ==
    /\ pc = "expanded"
    /\ norm_result.step = "none"
    /\ norm2_result.step = "none"
    /\ expand_terms # <<term>>
    /\ expand_terms # << <<>> >>

\* The phrases that follow a connector of the term and hold it no more
TrailingPhrases ==
    { Strip(SubSeq(term, p + Len(sep), Len(term))) :
        <<sep, p>> \in { sp \in {<<" ", "from", " ">>, <<" ", "of", " ">>,
                                 <<" ", "in", " ">>, <<" ", "due", " ", "to", " ">>}
                                \X (1..Len(term)) :
                           /\ OccursAt(term, sp[1], sp[2])
                           /\ ~Contains(SubSeq(term, sp[2] + Len(sp[1]), Len(term)),
                                        sp[1]) } }

\* C23: expand reduces a term only when normalize_term gave nothing for it;
\* then a term with a keyword of the period-pain cluster gives dysmenorrhea
\* alone, and otherwise a term "X from/of/in/due to Y" has normalize_term
\* called on Y and gives Y's standard term if there is one and Y itself if
\* not.
C23_ReductionFallback ==
    pc = "expanded" =>
        /\ norm_result.value # None =>
              /\ expand_path = "normalized"
              /\ expand_terms[1] = norm_result.value[1].standard_term
              /\ norm2_result.step = "not called"
        /\ (norm_result.value = None /\ HasClusterKeyword) =>
              /\ expand_terms = << <<"dysmenorrhea">> >>
              /\ norm2_result.step = "not called"
        /\ (norm_result.value = None /\ ~HasClusterKeyword /\ TrailingPhrases # {}) =>
              /\ norm2_result.step # "not called"
              /\ IF norm2_result.value # None
                 THEN expand_terms = <<norm2_result.value[1].standard_term>>
                 ELSE /\ Len(expand_terms) = 1
                      /\ expand_terms[1] \in TrailingPhrases

\* C23 witness: nothing matched a term with a connector, the phrase after
\* the connector had a fuzzy match, and expand returned that match's
\* standard term, which is no part of the term.
C23_Witness ==
    /\ pc = "expanded"
    /\ norm_result.value = None
    /\ ~HasClusterKeyword
    /\ TrailingPhrases # {}
    /\ norm2_result.step = "fuzzy"
    /\ expand_terms = <<norm2_result.value[1].standard_term>>
    /\ ~Contains(term, expand_terms[1])

\* ------------------------- evidence.py, build_pubmed_query_from_claim
\* most calls in a run
MaxCalls == 3

\* f'"{t}"[{fld}]'
Quoted(t, fld) == <<"\"">> \o t \o <<"\"", "[", fld, "]">>

\* sep.join(strs)
RECURSIVE JoinWith(_, _)
JoinWith(strs, sep) ==
    IF strs = <<>> THEN <<>>
    ELSE IF Len(strs) = 1 THEN strs[1]
    ELSE JoinWith(SubSeq(strs, 1, Len(strs) - 1), sep) \o sep \o strs[Len(strs)]

\* " OR ".join(f'"{t}"[{fld}]' for t in terms)
OrClause(terms, fld) ==
    JoinWith([k \in 1..Len(terms) |-> Quoted(terms[k], fld)], <<" OR ">>)

\* The lines of the builder after the two calls of expand
JoinClauses(subj_terms, out_terms, fld, mesh_fld, humans, pub_types) ==
    LET subj_clause == OrClause(subj_terms, fld)
        outcome_clause == OrClause(out_terms, fld)
        pt_clause == JoinWith([k \in 1..Len(pub_types[1]) |->
                                  <<pub_types[1][k], "[pt]">>], <<" OR ">>)
        clauses == << <<"(">> \o subj_clause \o <<")">>,
                      <<"(">> \o outcome_clause \o <<")">> >>
                   \o (IF humans THEN << <<"humans[", mesh_fld, "]">> >> ELSE <<>>)
                   \o (IF pub_types # None /\ pub_types[1] # <<>>
                       THEN << <<"(">> \o pt_clause \o <<")">> >> ELSE <<>>)
    IN  JoinWith(clauses, <<" AND ">>)

\* The phrase normalize_term is given when expand reduces t
ReducedOf(t) ==
    LET seps == {k \in 1..Len(Separators) : Contains(t, Separators[k])}
    IN  IF seps = {} THEN t
        ELSE Strip(SplitLast(t, Separators[CHOOSE k \in seps : \A j \in seps : k <= j]))

\* The library's answers to the builder's questions: no key reaches the
\* cutoff, or the first key alone scores 100
NoKeyClose == [k \in 1..Len(chv_lookup) |-> 94]

QueryScoreLists == {NoKeyClose, [k \in 1..Len(chv_lookup) |-> IF k = 1 THEN 100 ELSE 94]}

\* The terms normalize_term(t, ctx) asks the library about
AskedByNormalize(t, ctx) ==
    IF NormalizeTerm(t, ctx, NoKeyClose).asked THEN {Lower(Strip(t))} ELSE {}

\* The terms the library can be asked about by expand(t, ctx)
AskedByExpand(t, ctx) ==
    AskedByNormalize(t, Some(ctx))
    \cup (IF Expand(t, ctx, NoKeyClose, NoKeyClose, None).path = "reduced"
          THEN AskedByNormalize(ReducedOf(t), Some(ctx)) ELSE {})

\* The terms the library can be asked about by a call of the builder
TermsAsked(subj, outc) ==
    AskedByExpand(subj, subj \o <<" ">> \o outc)
    \cup AskedByExpand(outc, subj \o <<" ">> \o outc)

\* The library answers each term it has not been asked about before with
\* some score list, and each other term as before
MemoExtensions(asked) ==
    {extract_memo @@ ext : ext \in [asked \ DOMAIN extract_memo -> QueryScoreLists]}

\* expand(t, ctx) inside the builder, the library answering as in memo
ExpandWith(t, ctx, memo) ==
    LET sc1 == memo[Lower(Strip(t))]
        sc2 == memo[Lower(Strip(ReducedOf(t)))]
        norm == NormalizeTerm(t, Some(ctx), sc1)
        mesh == IF norm.value # None /\ norm.value[1].CUI \in DOMAIN cui_mesh
                THEN cui_mesh[norm.value[1].CUI] ELSE None
    IN  Expand(t, ctx, sc1, sc2, mesh)

\* build_pubmed_query_from_claim(subj, outc, human_only=humans,
\* publication_types=pub_types): the string returned and the log lines
build_pubmed_query_from_claim(subj, outc, humans, pub_types, memo) ==
    LET ctx == subj \o <<" ">> \o outc
        subj_exp == ExpandWith(subj, ctx, memo)
        out_exp == ExpandWith(outc, ctx, memo)
    IN  [query |-> JoinClauses(subj_exp.terms, out_exp.terms, "TIAB", "MeSH Terms",
                               humans, pub_types),
         log |-> subj_exp.log \o out_exp.log]

\* ---------------------------- query.py, build_pubmed_query_from_claim
\* normalize_claim_phrases(c, m) as a function: the nested loops from the
\* position (m, a) on, then the loop over the single words from a on
RECURSIVE ScanSpans(_, _, _, _, _)
ScanSpans(ws, m, a, u, res) ==
    IF m < 1 THEN [used |-> u, results |-> res]
    ELSE LET phrase == JoinSpace(SubSeq(ws, a, a + m - 1))
             norm == LookupGet(phrase)
             next == NextPosition(m, a, Len(ws))
         IN  IF ~AnyUsed(u, a, m) /\ norm # None
             THEN ScanSpans(ws, next.n, next.i,
                            [j \in 1..Len(u) |->
                                IF j \in a..(a + m - 1) THEN TRUE ELSE u[j]],
                            Append(res, PhraseResult(phrase, norm[1])))
             ELSE ScanSpans(ws, next.n, next.i, u, res)

RECURSIVE ScanSingles(_, _, _, _)
ScanSingles(ws, a, u, res) ==
    IF a > Len(ws) THEN res
    ELSE LET norm == LookupGet(ws[a])
         IN  IF ~u[a] /\ norm # None
             THEN ScanSingles(ws, a + 1, [u EXCEPT ![a] = TRUE],
                              Append(res, PhraseResult(ws[a], norm[1])))
             ELSE ScanSingles(ws, a + 1, u, res)

normalize_claim_phrases(c, m) ==
    LET ws == Split(Lower(c))
        spanned == ScanSpans(ws, FirstLength(m, Len(ws)), 1,
                             [j \in 1..Len(ws) |-> FALSE], <<>>)
    IN  ScanSingles(ws, 1, spanned.used, spanned.results)

\* the default of max_phrase_len
DefaultMaxPhraseLen == 5

\* re.split(r"\band\b|\bor\b", s): cut s at each chunk "and" or "or" that
\* stands as a word of its own
IsAndOr(s, k) ==
    /\ s[k] \in {"and", "or"}
    /\ k > 1 => s[k - 1] = " "
    /\ k < Len(s) => s[k + 1] = " "

RECURSIVE SplitAndOrFrom(_, _, _, _)
SplitAndOrFrom(s, k, cur, acc) ==
    IF k > Len(s) THEN Append(acc, cur)
    ELSE IF IsAndOr(s, k) THEN SplitAndOrFrom(s, k + 1, <<>>, Append(acc, cur))
    ELSE SplitAndOrFrom(s, k + 1, Append(cur, s[k]), acc)

SplitAndOr(s) == SplitAndOrFrom(s, 1, <<>>, <<>>)

\* [o.strip() for o in pieces if o.strip()]
RECURSIVE StripNonEmpty(_)
StripNonEmpty(pieces) ==
    IF pieces = <<>> THEN <<>>
    ELSE (IF Strip(Head(pieces)) # <<>> THEN <<Strip(Head(pieces))>> ELSE <<>>)
         \o StripNonEmpty(Tail(pieces))

\* The stop words of the fallback
Stopwords ==
    {"the", "and", "or", "with", "for", "that", "this", "are", "was", "has",
     "had", "have", "from", "per", "just", "ever", "show", "shows", "been",
     "will", "can", "may", "but", "not", "all", "any", "out", "our", "your",
     "their", "more", "less", "than", "each", "new", "best", "good", "bad",
     "great", "very", "much", "some", "most", "such", "also", "like", "get",
     "got", "make", "made", "use", "used", "using", "into", "over", "under",
     "about", "after", "before", "while", "when", "where", "which", "who",
     "whose", "whom", "because", "since", "until", "though", "although",
     "if", "then", "so", "too", "as", "on", "in", "by", "of", "to", "at",
     "is", "it", "an", "a"}

\* len(w) of a word, the sum of the lengths of its chunks
RECURSIVE WordLen(_)
WordLen(w) == IF w = <<>> THEN 0 ELSE Len(Head(w)) + WordLen(Tail(w))

\* [w for w in words if len(w) > 3 and w not in stopwords]; a word of
\* several chunks is not taken for a stop word
RECURSIVE Keywords(_)
Keywords(ws) ==
    IF ws = <<>> THEN <<>>
    ELSE (IF WordLen(Head(ws)) > 3 /\ ~(Len(Head(ws)) = 1 /\ Head(ws)[1] \in Stopwords)
          THEN <<Head(ws)>> ELSE <<>>)
         \o Keywords(Tail(ws))

\* [f'"{t}"[{fld}]', f'"{t}"[{mesh_fld}]']
BothFields(t, fld, mesh_fld) == <<Quoted(t, fld), Quoted(t, mesh_fld)>>

\* The clauses extended for each normalization of a list
RECURSIVE NormClauses(_, _, _)
NormClauses(norms, fld, mesh_fld) ==
    IF norms = <<>> THEN <<>>
    ELSE BothFields(Head(norms).standard_term, fld, mesh_fld)
         \o NormClauses(Tail(norms), fld, mesh_fld)

\* outcome_clauses of the structured branch
RECURSIVE OutcomeClauses(_, _, _)
OutcomeClauses(terms, fld, mesh_fld) ==
    IF terms = <<>> THEN <<>>
    ELSE BothFields(Head(terms), fld, mesh_fld)
         \o NormClauses(normalize_claim_phrases(Head(terms), DefaultMaxPhraseLen),
                        fld, mesh_fld)
         \o OutcomeClauses(Tail(terms), fld, mesh_fld)

\* outcome_clauses of the keyword branch
RECURSIVE KeywordClauses(_, _, _)
KeywordClauses(terms, fld, mesh_fld) ==
    IF terms = <<>> THEN <<>>
    ELSE BothFields(Head(terms), fld, mesh_fld)
         \o KeywordClauses(Tail(terms), fld, mesh_fld)

\* "(" + " OR ".join(cs) + ")"
OrGroup(cs) == <<"(">> \o JoinWith(cs, <<" OR ">>) \o <<")">>

\* The clauses of the terms: the structured branch when extract_claim
\* answered a subject and an object, else the keywords of the claim, else
\* the whole claim (query.py 22-103)
QueryTerms(c, extr, fld, mesh_fld) ==
    LET subj == IF extr # None THEN extr[1].subject ELSE <<>>
        outc == IF extr # None THEN extr[1].object ELSE <<>>
        keywords == Keywords(FindAllWords(Lower(c)))
        whole == [k \in 1..Len(Strip(c)) |->
                     IF Strip(c)[k] = "\"" THEN "'" ELSE Strip(c)[k]]
    IN  IF subj # <<>> /\ outc # <<>>
        THEN << OrGroup(BothFields(subj, fld, mesh_fld)
                        \o NormClauses(normalize_claim_phrases(subj, DefaultMaxPhraseLen),
                                       fld, mesh_fld)),
                OrGroup(OutcomeClauses(StripNonEmpty(SplitAndOr(outc)),
                                       fld, mesh_fld)) >>
        ELSE IF Len(keywords) >= 2
        THEN << OrGroup(BothFields(keywords[1], fld, mesh_fld)),
                OrGroup(KeywordClauses(Tail(keywords), fld, mesh_fld)) >>
        ELSE IF keywords # <<>>
        THEN BothFields(keywords[1], fld, mesh_fld)
        ELSE BothFields(whole, fld, mesh_fld)

\* The clauses appended after the terms (query.py 105-128)
QueryFilters(humans, pub_types, mesh_fld) ==
    (IF humans THEN << <<"humans[", mesh_fld, "]">> >> ELSE <<>>)
    \o (IF pub_types # None /\ pub_types[1] # <<>>
        THEN << OrGroup([k \in 1..Len(pub_types[1]) |->
                            <<pub_types[1][k], "[pt]">>]) >>
        ELSE << <<"(Clinical Trial[pt] OR Randomized Controlled Trial[pt])">> >>)
    \o << <<"English[lang]">>, <<"hasabstract">>,
          OrGroup(<< <<"Clinical Trial[pt]">>,
                     <<"Randomized Controlled Trial[pt]">>,
                     <<"Meta-Analysis[pt]">>, <<"Systematic Review[pt]">>,
                     <<"Review[pt]">> >>) >>

\* query.build_pubmed_query_from_claim(c, human_only=humans,
\* publication_types=pub_types), extract_claim answering extr
query_build_pubmed_query_from_claim(c, extr, humans, pub_types) ==
    LET fld == "TIAB"
        mesh_fld == "MeSH Terms"
    IN  JoinWith(QueryTerms(c, extr, fld, mesh_fld)
                 \o QueryFilters(humans, pub_types, mesh_fld), <<" AND ">>)

\* The (subject, outcome) pairs and the configurations the builder is given
QueryInputs ==
    { <<<<"drinking">>, <<"pain">>>>,
      <<<<"period", " ", "pain">>, <<"pain", " ", "or", " ", "period">>>>,
      <<<<"PAIN", " ", "from", " ", "period">>, <<"pain">>>>,
      <<<<"pain">>, <<>>>>,
      <<<<"pain">>, <<"or">>>>,
      <<<<"of">>, <<>>>> }

QueryConfigs ==
    { <<TRUE, None>>, <<FALSE, Some(<<>>)>>,
      <<TRUE, Some(<<"Review", "Clinical Trial">>)>> }

CUIs == {chv_lookup[k].CUI : k \in 1..Len(chv_lookup)}

QueryInit ==
    /\ chv_lookup \in NormTables
    /\ \E inp \in QueryInputs : subject = inp[1] /\ outcome = inp[2]
    /\ \E cfg \in QueryConfigs : human_only = cfg[1] /\ publication_types = cfg[2]
    /\ claim = subject \o <<" ">> \o outcome
    /\ extraction \in {None, Some([subject |-> subject, object |-> outcome])}
    /\ cui_mesh \in {[c \in CUIs |-> None], [c \in CUIs |-> Some(<<"dysmenorrhea">>)]}
    /\ extract_memo = <<>>
    /\ query = <<>>
    /\ first_query = None
    /\ claim_query = <<>>
    /\ first_claim_query = None
    /\ trace = <<>>
    /\ pc = "query"
    /\ max_phrase_len = 0
    /\ words = <<>>
    /\ used = <<>>
    /\ results = <<>>
    /\ spans = <<>>
    /\ n = 0
    /\ i = 0
    /\ ScoreIdle
    /\ NormIdle
    /\ ExpandIdle
    /\ AnalyzeIdle

\* A call of the builder with (subject, outcome, human_only, publication_types)
CallBuildQuery ==
    /\ pc = "query"
    /\ Len(trace) < MaxCalls
    /\ \E memo \in MemoExtensions(TermsAsked(subject, outcome)) :
          LET r == build_pubmed_query_from_claim(subject, outcome, human_only,
                                                 publication_types, memo)
          IN  /\ query' = r.query
              /\ first_query' = IF first_query = None THEN Some(r.query)
                                ELSE first_query
              /\ normalization_log' = normalization_log \o r.log
              /\ extract_memo' = memo
    /\ trace' = Append(trace, "build")
    /\ UNCHANGED <<pc, subject, outcome, human_only, publication_types, cui_mesh,
                   extraction, claim_query, first_claim_query,
                   chv_lookup, analyzeVars, scoreVarsButPc, phraseVars, term, context,
                   fuzzy_scores, norm_result, expandVars>>

\* A call of query.py's builder with (claim, human_only, publication_types)
CallQueryFromClaim ==
    /\ pc = "query"
    /\ Len(trace) < MaxCalls
    /\ LET q == query_build_pubmed_query_from_claim(claim, extraction, human_only,
                                                     publication_types)
       IN  /\ claim_query' = q
           /\ first_claim_query' = IF first_claim_query = None THEN Some(q)
                                   ELSE first_claim_query
    /\ trace' = Append(trace, "build from claim")
    /\ UNCHANGED <<pc, subject, outcome, human_only, publication_types, cui_mesh,
                   extraction, query, first_query, extract_memo,
                   chv_lookup, analyzeVars, scoreVarsButPc, phraseVars, normVars, expandVars>>

\* A call of the builder with other arguments: the outcome as the subject
CallBuildOther ==
    /\ pc = "query"
    /\ Len(trace) < MaxCalls
    /\ \E memo \in MemoExtensions(TermsAsked(outcome, subject)) :
          LET r == build_pubmed_query_from_claim(outcome, subject, ~human_only,
                                                 None, memo)
          IN  /\ normalization_log' = normalization_log \o r.log
              /\ extract_memo' = memo
    /\ trace' = Append(trace, "build other")
    /\ UNCHANGED <<pc, subject, outcome, human_only, publication_types, cui_mesh,
                   query, first_query, extraction, claim_query, first_claim_query,
                   chv_lookup, analyzeVars, scoreVarsButPc, phraseVars,
                   term, context, fuzzy_scores, norm_result, expandVars>>

\* A call normalize_term(subject) from elsewhere, without a context
CallNormalizeOther ==
    /\ pc = "query"
    /\ Len(trace) < MaxCalls
    /\ \E memo \in MemoExtensions(AskedByNormalize(subject, None)) :
          LET r == NormalizeTerm(subject, None, memo[Lower(Strip(subject))])
          IN  /\ normalization_log' = normalization_log \o r.log
              /\ extract_memo' = memo
    /\ trace' = Append(trace, "normalize_term")
    /\ UNCHANGED <<pc, subject, outcome, human_only, publication_types, cui_mesh,
                   query, first_query, extraction, claim_query, first_claim_query,
                   chv_lookup, analyzeVars, scoreVarsButPc, phraseVars,
                   term, context, fuzzy_scores, norm_result, expandVars>>

QueryNext ==
    CallBuildQuery \/ CallQueryFromClaim \/ CallBuildOther \/ CallNormalizeOther

QuerySpec == QueryInit /\ [][QueryNext]_vars

C4_WitnessFromClaim ==
    /\ trace = <<"build from claim", "build", "build from claim">>
    /\ extraction # None
    /\ outcome # <<>>
    /\ Len(claim_query) > 0
    /\ normalization_log # <<>>

\* -------------------------------------------- claims on query.py's builder
\* The fallback ran: the builder was called and extract_claim gave no
\* subject or no object
FallbackTaken ==
    /\ first_claim_query # None
    /\ \/ extraction = None
       \/ extraction[1].subject = <<>>
       \/ extraction[1].object = <<>>

ClaimKeywords == Keywords(FindAllWords(Lower(claim)))

\* The claim without the spaces around it, each double quote made a single
ClaimText ==
    [k \in 1..Len(Strip(claim)) |->
        IF Strip(claim)[k] = "\"" THEN "'" ELSE Strip(claim)[k]]

\* The query of term clauses cs followed by the filters
WithFilters(cs) ==
    JoinWith(cs \o QueryFilters(human_only, publication_types, "MeSH Terms"),
             <<" AND ">>)

\* C13: the fallback of the builder returns a query in each of its three
\* cases: with two keywords or more the first is the subject group and the
\* others the outcome OR-group; with one keyword the terms are clauses on
\* that keyword alone; with none the whole claim is quoted as a single
\* free-text clause.
C13_FallbackThreeWay ==
    FallbackTaken =>
        IF Len(ClaimKeywords) >= 2
        THEN claim_query
               = WithFilters(<< OrGroup(BothFields(ClaimKeywords[1], "TIAB", "MeSH Terms")),
                                OrGroup(KeywordClauses(Tail(ClaimKeywords),
                                                       "TIAB", "MeSH Terms")) >>)
        ELSE IF Len(ClaimKeywords) = 1
        THEN claim_query
               \in { WithFilters(<< Quoted(ClaimKeywords[1], "TIAB") >>),
                     WithFilters(BothFields(ClaimKeywords[1], "TIAB", "MeSH Terms")),
                     WithFilters(<< OrGroup(BothFields(ClaimKeywords[1],
                                                       "TIAB", "MeSH Terms")) >>) }
        ELSE claim_query = WithFilters(<< Quoted(ClaimText, "TIAB") >>)

\* The fallback ran on a claim without a keyword
C13_ZeroKeywordCase ==
    /\ FallbackTaken
    /\ ClaimKeywords = <<>>
    /\ claim_query = WithFilters(BothFields(ClaimText, "TIAB", "MeSH Terms"))

\* The first position from a on where the chunk ch stands in q, 0 if none
FirstAt(q, ch, a) ==
    LET at == {k \in a..Len(q) : q[k] = ch}
    IN  IF at = {} THEN 0 ELSE CHOOSE k \in at : \A h \in at : k <= h

\* The terms that stand quoted and scoped to the field fld in g
ScopedTerms(g, fld) ==
    { SubSeq(g, a + 1, b - 1) :
        <<a, b>> \in { ab \in (1..Len(g)) \X (1..Len(g)) :
                        /\ ab[1] < ab[2]
                        /\ g[ab[1]] = "\""
                        /\ g[ab[2]] = "\""
                        /\ \A k \in (ab[1] + 1)..(ab[2] - 1) : g[k] # "\""
                        /\ ab[1] > 1 => g[ab[1] - 1] # "\""
                        /\ ab[2] + 3 <= Len(g)
                        /\ g[ab[2] + 1] = "["
                        /\ g[ab[2] + 2] = fld
                        /\ g[ab[2] + 3] = "]" } }

\* g is a list of scoped terms joined by OR, each term in both fields
OrGroupOfBothFields(g) ==
    /\ ScopedTerms(g, "TIAB") # {}
    /\ ScopedTerms(g, "TIAB") = ScopedTerms(g, "MeSH Terms")
    /\ \A k \in 1..(Len(g) - 1) : g[k] = "]" => g[k + 1] = " OR "
    /\ g[Len(g)] = "]"

\* q starts with two parenthesized OR-groups of terms in both fields joined
\* by AND, and what follows them, if anything, is joined by AND
TwoGroupsBothFields(q) ==
    LET e1 == FirstAt(q, ")", 1)
        e2 == FirstAt(q, ")", e1 + 1)
    IN  /\ Len(q) > 0
        /\ q[1] = "("
        /\ e1 > 0
        /\ e1 + 2 <= Len(q)
        /\ q[e1 + 1] = " AND "
        /\ q[e1 + 2] = "("
        /\ e2 > 0
        /\ e2 = Len(q) \/ q[e2 + 1] = " AND "
        /\ OrGroupOfBothFields(SubSeq(q, 2, e1 - 1))
        /\ OrGroupOfBothFields(SubSeq(q, e1 + 3, e2 - 1))

\* The builder of evidence.py was called with a subject and an outcome
StructuredBuild == first_query # None /\ subject # <<>> /\ outcome # <<>>

\* The builder of query.py was called and extract_claim gave both
StructuredFromClaim == first_claim_query # None /\ ~FallbackTaken

\* C17: for a subject and an outcome the query starts with the OR-group of
\* the subject terms AND the OR-group of the outcome terms, before any
\* filter, each term standing in the group once scoped to the free-text
\* field and once to the controlled-vocabulary field.
C17_GroupsScopedToBothFields ==
    /\ StructuredBuild => TwoGroupsBothFields(query)
    /\ StructuredFromClaim => TwoGroupsBothFields(claim_query)

\* The clauses after the term groups, in their order
FilterClauses ==
    (IF human_only THEN << <<"humans[", "MeSH Terms", "]">> >> ELSE <<>>)
    \o << IF publication_types # None /\ publication_types[1] # <<>>
          THEN <<"(">>
               \o JoinWith([k \in 1..Len(publication_types[1]) |->
                               <<publication_types[1][k], "[pt]">>], <<" OR ">>)
               \o <<")">>
          ELSE <<"(Clinical Trial[pt] OR Randomized Controlled Trial[pt])">> >>
    \o << <<"English[lang]">>, <<"hasabstract">>,
          <<"(", "Clinical Trial[pt]", " OR ", "Randomized Controlled Trial[pt]",
            " OR ", "Meta-Analysis[pt]", " OR ", "Systematic Review[pt]", " OR ",
            "Review[pt]", ")">> >>

\* q is the two term groups followed by the clauses cs, all joined by AND
GroupsThenClauses(q, cs) ==
    LET e1 == FirstAt(q, ")", 1)
        e2 == FirstAt(q, ")", e1 + 1)
    IN  /\ e1 > 0
        /\ e2 > 0
        /\ q = JoinWith(<<SubSeq(q, 1, e2)>> \o cs, <<" AND ">>)

\* C18: after the term groups the query has, joined by AND and in this
\* order: the human filter if and only if human_only; the OR-group of the
\* publication types when there are some, else the default clause of
\* clinical trials and RCTs; the language filter; the abstract filter; the
\* OR-group of the study types.
C18_FiltersInFixedOrder ==
    /\ StructuredBuild => GroupsThenClauses(query, FilterClauses)
    /\ StructuredFromClaim => GroupsThenClauses(claim_query, FilterClauses)

\* The two term groups a query starts with, without their parentheses
FirstGroup(q) == SubSeq(q, 2, FirstAt(q, ")", 1) - 1)

SecondGroup(q) ==
    LET e1 == FirstAt(q, ")", 1)
    IN  SubSeq(q, e1 + 3, FirstAt(q, ")", e1 + 1) - 1)

\* How many times the term t scoped to fld stands in g
Occurrences(g, t, fld) ==
    Cardinality({a \in 1..Len(g) :
                    /\ a + Len(Quoted(t, fld)) - 1 <= Len(g)
                    /\ SubSeq(g, a, a + Len(Quoted(t, fld)) - 1) = Quoted(t, fld)})

\* No term scoped to a field stands twice in g
NoRepeatedTerm(g) ==
    \A fld \in {"TIAB", "MeSH Terms"} :
        \A t \in ScopedTerms(g, fld) : Occurrences(g, t, fld) = 1

\* The group g starts with the raw phrase and repeats no scoped term
RawFirstNoRepeat(g, raw) ==
    /\ Len(g) >= Len(Quoted(raw, "TIAB"))
    /\ SubSeq(g, 1, Len(Quoted(raw, "TIAB"))) = Quoted(raw, "TIAB")
    /\ NoRepeatedTerm(g)

\* C20: the term list of the subject and that of the outcome start with the
\* raw phrase, hold the standardized form of each normalization of it, and
\* hold no term twice, so that no OR-group of the query has the same term
\* scoped to the same field twice.
C20_RawPlusStandardNoDuplicate ==
    /\ StructuredBuild =>
          /\ RawFirstNoRepeat(FirstGroup(query), subject)
          /\ RawFirstNoRepeat(SecondGroup(query), outcome)
    /\ StructuredFromClaim =>
          /\ RawFirstNoRepeat(FirstGroup(claim_query), extraction[1].subject)
          /\ \A k \in 1..Len(normalize_claim_phrases(extraction[1].subject,
                                                      DefaultMaxPhraseLen)) :
                normalize_claim_phrases(extraction[1].subject,
                                        DefaultMaxPhraseLen)[k].standard_term
                   \in ScopedTerms(FirstGroup(claim_query), "TIAB")
          /\ NoRepeatedTerm(SecondGroup(claim_query))

\* No parenthesis of q opens on nothing
NoEmptyGroup(q) == \A k \in 1..(Len(q) - 1) : q[k] = "(" => q[k + 1] # ")"

\* C24: no query of either builder has a parenthesized OR-group without a
\* term, whatever the subject and the outcome, an outcome made of a
\* conjunction word alone included.
C24_NoEmptyTermGroup ==
    /\ first_query # None => NoEmptyGroup(query)
    /\ first_claim_query # None => NoEmptyGroup(claim_query)

\* --------------------------- claim_extractor.py, the parse of analyze_paper
MaxLines == 4

\* line.startswith(tag), the tag being one chunk
StartsWith(line, tag) == line # <<>> /\ line[1] = tag

\* line.replace(tag, ''): every occurrence of the tag is removed
RECURSIVE Replace(_, _)
Replace(line, tag) ==
    IF line = <<>> THEN <<>>
    ELSE (IF Head(line) = tag THEN <<>> ELSE <<Head(line)>>) \o Replace(Tail(line), tag)

\* s.split(':')
RECURSIVE SplitColonFrom(_, _, _, _)
SplitColonFrom(s, k, cur, acc) ==
    IF k > Len(s) THEN Append(acc, cur)
    ELSE IF s[k] = ":" THEN SplitColonFrom(s, k + 1, <<>>, Append(acc, cur))
    ELSE SplitColonFrom(s, k + 1, Append(cur, s[k]), acc)

SplitColon(s) == SplitColonFrom(s, 1, <<>>, <<>>)

\* float(s), in tenths: None stands for the ValueError
ParseFloat(s) ==
    IF s = <<"0.0">> THEN Some(0)
    ELSE IF s = <<"0.5">> THEN Some(5)
    ELSE IF s = <<"0.8">> THEN Some(8)
    ELSE IF s = <<"1.0">> THEN Some(10)
    ELSE IF s = <<"1.5">> THEN Some(15)
    ELSE None

ParseStartInside ==
    [relevance |-> <<>>, confidence_scores |-> <<>>, overall_confidence |-> 0,
     confidence_reason |-> <<>>, summary |-> <<>>, validity |-> <<>>,
     reasoning |-> <<>>, in_confidence_scores |-> TRUE]

\* The locals before the loop (claim_extractor.py 165-173)
ParseStart ==
    [relevance |-> <<>>, confidence_scores |-> <<>>, overall_confidence |-> 0,
     confidence_reason |-> <<>>, summary |-> <<>>, validity |-> <<>>,
     reasoning |-> <<>>, in_confidence_scores |-> FALSE]

\* One turn of the loop over the lines (claim_extractor.py 175-200)
ParseLineClearing(st, raw) ==
    LET line == Strip(raw)
    IN  IF StartsWith(line, "RELEVANCE:")
        THEN [st EXCEPT !.relevance = Strip(Replace(line, "RELEVANCE:"))]
        ELSE IF StartsWith(line, "CONFIDENCE_SCORES:")
        THEN [st EXCEPT !.in_confidence_scores = TRUE]
        ELSE IF StartsWith(line, "OVERALL_CONFIDENCE:")
        THEN LET f == ParseFloat(Strip(Replace(line, "OVERALL_CONFIDENCE:")))
             IN  [st EXCEPT !.in_confidence_scores = FALSE,
                            !.overall_confidence = IF f = None THEN 0 ELSE f[1]]
        ELSE IF st.in_confidence_scores /\ StartsWith(line, "- ")
        THEN LET parts == SplitColon(Replace(line, "- "))
             IN  IF Len(parts) # 2 THEN [st EXCEPT !.confidence_scores = <<>>]
                 ELSE LET f == ParseFloat(Strip(parts[2]))
                      IN  IF f = None THEN [st EXCEPT !.confidence_scores = <<>>]
                          ELSE [st EXCEPT !.confidence_scores
                                              = (Strip(parts[1]) :> f[1]) @@ @]
        ELSE IF StartsWith(line, "CONFIDENCE_REASON:")
        THEN [st EXCEPT !.confidence_reason = Strip(Replace(line, "CONFIDENCE_REASON:"))]
        ELSE IF StartsWith(line, "SUMMARY:")
        THEN [st EXCEPT !.summary = Strip(Replace(line, "SUMMARY:"))]
        ELSE IF StartsWith(line, "VALIDITY:")
        THEN [st EXCEPT !.validity = Strip(Replace(line, "VALIDITY:"))]
        ELSE IF StartsWith(line, "REASONING:")
        THEN [st EXCEPT !.reasoning = Strip(Replace(line, "REASONING:"))]
        ELSE st

ParseLine(st, raw) ==
    LET line == Strip(raw)
    IN  IF StartsWith(line, "RELEVANCE:")
        THEN [st EXCEPT !.relevance = Strip(Replace(line, "RELEVANCE:"))]
        ELSE IF StartsWith(line, "CONFIDENCE_SCORES:")
        THEN [st EXCEPT !.in_confidence_scores = TRUE]
        ELSE IF StartsWith(line, "OVERALL_CONFIDENCE:")
        THEN LET f == ParseFloat(Strip(Replace(line, "OVERALL_CONFIDENCE:")))
             IN  [st EXCEPT !.in_confidence_scores = FALSE,
                            !.overall_confidence = IF f = None THEN 0 ELSE f[1]]
        ELSE IF st.in_confidence_scores /\ StartsWith(line, "- ")
        THEN LET parts == SplitColon(Replace(line, "- "))
             IN  IF Len(parts) # 2 THEN st
                 ELSE LET f == ParseFloat(Strip(parts[2]))
                      IN  IF f = None THEN st
                          ELSE [st EXCEPT !.confidence_scores
                                              = (Strip(parts[1]) :> f[1]) @@ @]
        ELSE IF StartsWith(line, "CONFIDENCE_REASON:")
        THEN [st EXCEPT !.confidence_reason = Strip(Replace(line, "CONFIDENCE_REASON:"))]
        ELSE IF StartsWith(line, "SUMMARY:")
        THEN [st EXCEPT !.summary = Strip(Replace(line, "SUMMARY:"))]
        ELSE IF StartsWith(line, "VALIDITY:")
        THEN [st EXCEPT !.validity = Strip(Replace(line, "VALIDITY:"))]
        ELSE IF StartsWith(line, "REASONING:")
        THEN [st EXCEPT !.reasoning = Strip(Replace(line, "REASONING:"))]
        ELSE st

\* The dict built after the loop (claim_extractor.py 202-210)
ParseResult(st) ==
    [relevance |-> st.relevance, confidence_scores |-> st.confidence_scores,
     overall_confidence |-> st.overall_confidence,
     confidence_reason |-> st.confidence_reason, summary |-> st.summary,
     validity |-> st.validity, reasoning |-> st.reasoning]

\* The loop over the lines from the locals st on
RECURSIVE ParseLoop(_, _)
ParseLoop(lines, st) ==
    IF lines = <<>> THEN st ELSE ParseLoop(Tail(lines), ParseLine(st, Head(lines)))

\* The parse of a whole response
ParseAnalysis(lines) == ParseResult(ParseLoop(lines, ParseStart))

\* The lines a response is made of
AnalysisLines ==
    { <<"RELEVANCE:", " ", "DIRECT">>,
      <<"CONFIDENCE_SCORES:">>,
      <<"- ", "study_design", ":", " ", "0.8">>,
      <<"- ", "sample_size", ":", " ", "high">>,
      <<"- ", "sample_size", ":", " ", "0.5">>,
      <<"- ", "duration", ":", " ", "0.5", ":", " ", "short">>,
      <<"OVERALL_CONFIDENCE:", " ", "0.8">>,
      <<"OVERALL_CONFIDENCE:", " ", "high">>,
      <<"OVERALL_CONFIDENCE:", " ", "1.5">>,
      <<" ", "VALIDITY:", " ", "SUPPORTS", " ">> }

Responses == UNION {[1..m -> AnalysisLines] : m \in 0..MaxLines}

ParseInit ==
    /\ pc = "parse"
    /\ response \in Responses
    /\ line_no = 1
    /\ parsing = ParseStart
    /\ parse_result = None
    /\ cache = <<>>
    /\ calls = <<>>
    /\ chv_lookup = <<>>
    /\ ScoreIdle
    /\ PhraseIdle
    /\ NormIdle
    /\ ExpandIdle
    /\ QueryIdle

\* One turn of the loop
ParseNextLine ==
    /\ pc = "parse"
    /\ line_no <= Len(response)
    /\ parsing' = ParseLine(parsing, response[line_no])
    /\ line_no' = line_no + 1
    /\ UNCHANGED <<response, parse_result, cache, calls, chv_lookup, scoreVars,
                   phraseVars, normVars, expandVars, queryVars>>

\* The loop ends and the dict is built
ParseReturn ==
    /\ pc = "parse"
    /\ line_no > Len(response)
    /\ parse_result' = Some(ParseResult(parsing))
    /\ pc' = "parsed"
    /\ UNCHANGED <<response, line_no, parsing, cache, calls, chv_lookup,
                   scoreVarsButPc, phraseVars, normVars, expandVars, queryVars>>

ParseNext == ParseNextLine \/ ParseReturn

ParseSpec == ParseInit /\ [][ParseNext]_vars

\* ------------------------------------------------------ claims on the parse
\* A line of a criterion that cannot be parsed: not two parts around the
\* colon, or no number after it
MalformedCriterion(raw) ==
    /\ StartsWith(Strip(raw), "- ")
    /\ LET parts == SplitColon(Replace(Strip(raw), "- "))
       IN  Len(parts) # 2 \/ ParseFloat(Strip(parts[2])) = None

\* A line of the overall confidence without a number
MalformedOverall(raw) ==
    /\ StartsWith(Strip(raw), "OVERALL_CONFIDENCE:")
    /\ ParseFloat(Strip(Replace(Strip(raw), "OVERALL_CONFIDENCE:"))) = None

\* The lines without the one at position k
WithoutLine(lines, k) == SubSeq(lines, 1, k - 1) \o SubSeq(lines, k + 1, Len(lines))

\* The criterion lines that are read and parse, as (name, value) in order
RECURSIVE GoodCriteria(_, _)
GoodCriteria(lines, inside) ==
    IF lines = <<>> THEN <<>>
    ELSE LET line == Strip(Head(lines))
         IN  IF StartsWith(line, "CONFIDENCE_SCORES:") THEN GoodCriteria(Tail(lines), TRUE)
             ELSE IF StartsWith(line, "OVERALL_CONFIDENCE:")
             THEN GoodCriteria(Tail(lines), FALSE)
             ELSE IF /\ inside
                     /\ StartsWith(line, "- ")
                     /\ ~MalformedCriterion(line)
             THEN <<line>> \o GoodCriteria(Tail(lines), inside)
             ELSE GoodCriteria(Tail(lines), inside)

\* C14: the parse of a response always ends with a dict; a criterion line
\* that cannot be parsed is skipped, the dict being that of the response
\* without the line; an overall confidence that is no number leaves 0.0 in
\* its field and changes nothing else; every criterion line that parses is
\* in the dict whatever other lines failed.
C14_MalformedLineSkipped ==
    pc = "parsed" =>
        /\ parse_result # None
        /\ \A k \in 1..Len(response) :
              /\ MalformedCriterion(response[k])
                    => parse_result[1] = ParseAnalysis(WithoutLine(response, k))
              /\ MalformedOverall(response[k])
                    => parse_result[1]
                         = ParseAnalysis([response EXCEPT
                               ![k] = <<"OVERALL_CONFIDENCE:", " ", "0.0">>])
        /\ LET good == GoodCriteria(response, FALSE)
           IN  \A k \in 1..Len(good) :
                  LET nm == Strip(SplitColon(Replace(good[k], "- "))[1])
                  IN  nm \in DOMAIN parse_result[1].confidence_scores

\* C14 witness: a response with a criterion that parses, one whose value is
\* no number and a validity has been parsed: the first criterion and the
\* validity are in the dict, the second criterion is not.
C14_Witness ==
    /\ pc = "parsed"
    /\ response = << <<"CONFIDENCE_SCORES:">>,
                     <<"- ", "sample_size", ":", " ", "high">>,
                     <<"- ", "study_design", ":", " ", "0.8">>,
                     <<" ", "VALIDITY:", " ", "SUPPORTS", " ">> >>
    /\ parse_result # None
    /\ DOMAIN parse_result[1].confidence_scores = {<<"study_design">>}
    /\ parse_result[1].confidence_scores[<<"study_design">>] = 8
    /\ parse_result[1].validity = <<"SUPPORTS">>

\* C25: the overall confidence of every dict the parse returns is between
\* 0.0 and 1.0, whatever the lines of the response.
C25_OverallConfidenceInUnitRange ==
    pc = "parsed" =>
        /\ parse_result[1].overall_confidence >= 0
        /\ parse_result[1].overall_confidence <= 10

\* The line at position k as the loop sees it
LineAt(k) == Strip(response[k])

\* Position k is inside the criteria section: a CONFIDENCE_SCORES: line comes
\* before it with no OVERALL_CONFIDENCE: line in between
InCriteriaSection(k) ==
    \E a \in 1..(k - 1) :
        /\ StartsWith(LineAt(a), "CONFIDENCE_SCORES:")
        /\ \A j \in (a + 1)..(k - 1) : ~StartsWith(LineAt(j), "OVERALL_CONFIDENCE:")

\* The line at k is the last one read so far that starts with the label
LastWith(label, k) ==
    /\ StartsWith(LineAt(k), label)
    /\ \A j \in (k + 1)..(line_no - 1) : ~StartsWith(LineAt(j), label)

\* C30: at every point of the parse, the names in confidence_scores are
\* those of the criterion lines read inside the criteria section, after a
\* CONFIDENCE_SCORES: line and before the next OVERALL_CONFIDENCE: line; a
\* criterion line before or after the section adds nothing; and a line that
\* starts with a fixed label sets that label's field wherever it stands.
C30_CriteriaOnlyInsideSection ==
    pc \in {"parse", "parsed"} =>
        /\ DOMAIN parsing.confidence_scores
             = {Strip(SplitColon(Replace(LineAt(k), "- "))[1]) :
                  k \in {m \in 1..(line_no - 1) :
                            /\ StartsWith(LineAt(m), "- ")
                            /\ ~MalformedCriterion(response[m])
                            /\ InCriteriaSection(m)}}
        /\ \A k \in 1..(line_no - 1) :
              /\ LastWith("RELEVANCE:", k)
                    => parsing.relevance = Strip(Replace(LineAt(k), "RELEVANCE:"))
              /\ LastWith("VALIDITY:", k)
                    => parsing.validity = Strip(Replace(LineAt(k), "VALIDITY:"))
              /\ (LastWith("OVERALL_CONFIDENCE:", k) /\ ~MalformedOverall(response[k]))
                    => parsing.overall_confidence
                         = ParseFloat(Strip(Replace(LineAt(k), "OVERALL_CONFIDENCE:")))[1]

\* C30 witness: a criterion inside the section is kept, the overall
\* confidence that ends the section is read as its label, and the criterion
\* after it is left out.
C30_Witness ==
    /\ pc = "parsed"
    /\ response = << <<"CONFIDENCE_SCORES:">>,
                     <<"- ", "study_design", ":", " ", "0.8">>,
                     <<"OVERALL_CONFIDENCE:", " ", "0.8">>,
                     <<"- ", "sample_size", ":", " ", "0.5">> >>
    /\ DOMAIN parsing.confidence_scores = {<<"study_design">>}
    /\ parsing.overall_confidence = 8
    /\ ~parsing.in_confidence_scores

\* ------------------- claim_extractor.py, the calls of the oracle and the cache
MaxAnalyzeCalls == 3

\* What the oracle does when it is asked: it raises, or it answers a text
Raise(e) == [kind |-> "raise", content |-> e]
Answer(text) == [kind |-> "answer", content |-> text]

\* f"llm_analysis::{claim}::{pmid}"
AnalysisKeyNoPmid(c, p) == "llm_analysis::" \o c

AnalysisKey(c, p) == "llm_analysis::" \o c \o "::" \o p

\* f"llm_query::{claim}"
QueryKey(c) == "llm_query::" \o c

\* The dict of the except branch of analyze_paper (claim_extractor.py 216-226)
ErrorAnalysis(e) ==
    [relevance |-> <<"NOT", " ", "RELEVANT">>, confidence_scores |-> <<>>,
     overall_confidence |-> 0,
     confidence_reason |-> <<"Error", " ", "analyzing", " ", "paper">>,
     summary |-> <<"Error", " ", "analyzing", " ", "paper">>,
     validity |-> <<"UNKNOWN">>, reasoning |-> e]

\* analyze_paper(paper, claim) for a paper of pmid p, the oracle doing o when
\* asked and the cache holding store: how the call ends, its value, the
\* cache after it and whether the oracle was asked
analyze_paper(c, p, o, store) ==
    LET cache_key == AnalysisKey(c, p)
    IN  IF cache_key \in DOMAIN store
        THEN [outcome |-> "return", value |-> store[cache_key], store |-> store,
              asked |-> FALSE]
        ELSE IF o.kind = "raise"
        THEN [outcome |-> "return", value |-> ErrorAnalysis(o.content),
              store |-> store, asked |-> TRUE]
        ELSE LET result == ParseAnalysis(o.content)
             IN  [outcome |-> "return", value |-> result,
                  store |-> (cache_key :> result) @@ store, asked |-> TRUE]

\* llm_build_pubmed_query(claim)
llm_build_pubmed_query(c, o, store) ==
    LET cache_key == QueryKey(c)
    IN  IF cache_key \in DOMAIN store
        THEN [outcome |-> "return", value |-> store[cache_key], store |-> store,
              asked |-> FALSE]
        ELSE IF o.kind = "raise"
        THEN [outcome |-> "return", value |-> <<>>, store |-> store, asked |-> TRUE]
        ELSE [outcome |-> "return", value |-> Strip(o.content),
              store |-> (cache_key :> Strip(o.content)) @@ store, asked |-> TRUE]

\* json.loads(s): None stands for the exception
JsonLoads(s) ==
    IF s = <<"{\"subject\": \"tea\", \"object\": \"sleep\"}">>
    THEN Some([subject |-> <<"tea">>, object |-> <<"sleep">>])
    ELSE IF s = <<"{\"subject\": \"tea\"}">>
    THEN Some([subject |-> <<"tea">>])
    ELSE None

\* extract_claim(tweet): the value is None or the dict
extract_claim(o) ==
    IF o.kind = "raise" THEN [outcome |-> "return", value |-> None, asked |-> TRUE]
    ELSE LET answer == Strip(o.content)
         IN  IF Lower(answer) \in {<<"null">>, <<"none">>, <<"no", " ", "claim">>, <<>>}
             THEN [outcome |-> "return", value |-> None, asked |-> TRUE]
             ELSE [outcome |-> "return", value |-> JsonLoads(answer), asked |-> TRUE]

\* The claims, the pmids and what the oracle may do
AnalyzedClaims == {"tea", "tea::1"}
Pmids == {"", "1"}

AnalysisOutcomes ==
    { Raise(<<"timeout">>),
      Answer(<< <<"RELEVANCE:", " ", "DIRECT">>, <<"VALIDITY:", " ", "SUPPORTS">> >>),
      Answer(<< <<"RELEVANCE:", " ", "NOT", " ", "RELEVANT">> >>) }

QueryOutcomes == { Raise(<<"timeout">>), Answer(<<" ", "tea", "[", "TIAB", "]">>) }

ExtractOutcomes ==
    { Raise(<<"timeout">>), Answer(<<" ", "None">>), Answer(<<"tea">>),
      Answer(<<"{\"subject\": \"tea\", \"object\": \"sleep\"}">>),
      Answer(<<"{\"subject\": \"tea\"}">>) }

\* d.get(key, ""), d a dict
DictGet(d, key) == IF key \in DOMAIN d THEN d[key] ELSE <<>>

\* The start of the handler of "Analyze Claim" for a tweet (app.py 149-167):
\* either get_evidence is called with a subject and an outcome, or the
\* handler reports that no claim was found
AnalyzeClaimStart(o) ==
    LET claim_dict == extract_claim(o).value
    IN  IF claim_dict # None
        THEN [outcome |-> "get_evidence",
              value |-> [subject |-> DictGet(claim_dict[1], "subject"),
                         outcome |-> DictGet(claim_dict[1], "object")]]
        ELSE [outcome |-> "no claim found", value |-> None]

AnalyzeInit ==
    /\ pc = "analyze"
    /\ cache = <<>>
    /\ calls = <<>>
    /\ response = <<>>
    /\ line_no = 0
    /\ parsing = <<>>
    /\ parse_result = <<>>
    /\ chv_lookup = <<>>
    /\ ScoreIdle
    /\ PhraseIdle
    /\ NormIdle
    /\ ExpandIdle
    /\ QueryIdle

\* A call analyze_paper(paper, claim)
CallAnalyzePaper ==
    /\ pc = "analyze"
    /\ Len(calls) < MaxAnalyzeCalls
    /\ \E c \in AnalyzedClaims, p \in Pmids, o \in AnalysisOutcomes :
          LET r == analyze_paper(c, p, o, cache)
          IN  /\ cache' = r.store
              /\ calls' = Append(calls,
                     [fn |-> "analyze_paper", args |-> <<c, p>>,
                      oracle |-> IF r.asked THEN Some(o) ELSE None,
                      outcome |-> r.outcome, value |-> r.value])
    /\ UNCHANGED <<response, line_no, parsing, parse_result, chv_lookup, scoreVars,
                   phraseVars, normVars, expandVars, queryVars>>

\* A call llm_build_pubmed_query(claim)
CallLlmBuildQuery ==
    /\ pc = "analyze"
    /\ Len(calls) < MaxAnalyzeCalls
    /\ \E c \in AnalyzedClaims, o \in QueryOutcomes :
          LET r == llm_build_pubmed_query(c, o, cache)
          IN  /\ cache' = r.store
              /\ calls' = Append(calls,
                     [fn |-> "llm_build_pubmed_query", args |-> <<c>>,
                      oracle |-> IF r.asked THEN Some(o) ELSE None,
                      outcome |-> r.outcome, value |-> r.value])
    /\ UNCHANGED <<response, line_no, parsing, parse_result, chv_lookup, scoreVars,
                   phraseVars, normVars, expandVars, queryVars>>

\* A call extract_claim(tweet)
CallExtractClaim ==
    /\ pc = "analyze"
    /\ Len(calls) < MaxAnalyzeCalls
    /\ \E o \in ExtractOutcomes :
          LET r == extract_claim(o)
          IN  calls' = Append(calls,
                     [fn |-> "extract_claim", args |-> <<"tea">>,
                      oracle |-> Some(o), outcome |-> r.outcome, value |-> r.value])
    /\ UNCHANGED <<cache, response, line_no, parsing, parse_result, chv_lookup,
                   scoreVars, phraseVars, normVars, expandVars, queryVars>>

\* A press of "Analyze Claim", up to the call of get_evidence
PressAnalyzeClaim ==
    /\ pc = "analyze"
    /\ Len(calls) < MaxAnalyzeCalls
    /\ \E o \in ExtractOutcomes :
          LET r == AnalyzeClaimStart(o)
          IN  calls' = Append(calls,
                     [fn |-> "Analyze Claim", args |-> <<"tea">>,
                      oracle |-> Some(o), outcome |-> r.outcome, value |-> r.value])
    /\ UNCHANGED <<cache, response, line_no, parsing, parse_result, chv_lookup,
                   scoreVars, phraseVars, normVars, expandVars, queryVars>>

AnalyzeNext ==
    CallAnalyzePaper \/ CallLlmBuildQuery \/ CallExtractClaim \/ PressAnalyzeClaim

AnalyzeSpec == AnalyzeInit /\ [][AnalyzeNext]_vars

\* ------------------------------------- claims on the oracle and the cache
\* The oracle was asked in call k and raised
OracleRaised(k) == calls[k].oracle # None /\ calls[k].oracle[1].kind = "raise"

\* C15: when the oracle of a call fails the call ends with the error: it
\* does not return a value such as no claim or a NOT RELEVANT analysis.
C15_OracleFailurePropagates ==
    \A k \in 1..Len(calls) : OracleRaised(k) => calls[k].outcome = "raise"

\* Call j is a call of analyze_paper that asked the oracle and stored what
\* it parsed from the answer
StoredBy(j) ==
    /\ calls[j].fn = "analyze_paper"
    /\ calls[j].oracle # None
    /\ calls[j].oracle[1].kind = "answer"

\* C16: over the calls of analyze_paper, once a call has stored its result
\* for a (claim, pmid), every later call with that (claim, pmid) does not ask
\* the oracle and returns the value that call returned; a call that does not
\* ask the oracle returns the value of an earlier call with its (claim, pmid);
\* the cache holds the keys stored and no other analysis key.
C16_AnalysisAtMostOnce ==
    /\ \A j, h \in 1..Len(calls) :
          (j < h /\ StoredBy(j) /\ calls[h].fn = "analyze_paper"
                 /\ calls[h].args = calls[j].args)
             => /\ calls[h].oracle = None
                /\ calls[h].value = calls[j].value
    /\ \A h \in 1..Len(calls) :
          (calls[h].fn = "analyze_paper" /\ calls[h].oracle = None)
             => \E j \in 1..(h - 1) : StoredBy(j) /\ calls[j].args = calls[h].args
    /\ \A c \in AnalyzedClaims, p \in Pmids :
          AnalysisKey(c, p) \in DOMAIN cache
             <=> \E j \in 1..Len(calls) : StoredBy(j) /\ calls[j].args = <<c, p>>

\* C16 witness: the oracle raised in the first call for a (claim, pmid),
\* answered in the second, and the third call with that (claim, pmid)
\* returned the value of the second without asking, another (claim, pmid)
\* of the same claim having no entry.
C16_Witness ==
    /\ Len(calls) = 3
    /\ \A k \in 1..3 : calls[k].fn = "analyze_paper" /\ calls[k].args = <<"tea", "">>
    /\ OracleRaised(1)
    /\ StoredBy(2)
    /\ calls[3].oracle = None
    /\ calls[3].value = calls[2].value
    /\ calls[3].value.relevance = <<"DIRECT">>
    /\ AnalysisKey("tea", "1") \notin DOMAIN cache

\* C26: whenever the handler goes on to get_evidence, the subject and the
\* outcome it passes are both non-empty; an answer of extract_claim that
\* lacks one of them ends as no claim found.
C26_ClaimHasSubjectAndOutcome ==
    \A k \in 1..Len(calls) :
        (calls[k].fn = "Analyze Claim" /\ calls[k].outcome = "get_evidence")
           => /\ calls[k].value.subject # <<>>
              /\ calls[k].value.outcome # <<>>

====
